---- MODULE Spec2Model ----
(***************************************************************************)
(* Price-list service (src/server.js): the tire specification parser, the  *)
(* tire search handler and the reload of the in-memory product set.        *)
(*                                                                         *)
(* Text is a sequence of one-character strings, so that the regular        *)
(* expressions of the parser are modelled by what they match.  JavaScript  *)
(* values are records [t, n, s]: t is the type tag, n the number (or the   *)
(* boolean as 0/1), s the text of a string.                                *)
(***************************************************************************)
EXTENDS Integers, Sequences, FiniteSets, TLC

VARIABLES priceListData, loaded, req, queued, res, matchingTires, hoja, calls, CONFIG

vars == <<priceListData, loaded, req, queued, res, matchingTires, hoja, calls, CONFIG>>

\* the state of the booking services: the sheet and the requests in flight
citasVars == <<hoja, calls, CONFIG>>

\* CONFIG of the configurable booking service with no environment set
DefaultConfig == [start |-> 9, end |-> 18, buffer |-> 15, duration |-> 60]

(***************************************************************************)
(* Bounds of the model.                                                    *)
(***************************************************************************)
MaxSpaces == 2
MaxRows == 2
MaxFileRows == 2
MaxCitas == 2

(***************************************************************************)
(* JavaScript values.                                                      *)
(***************************************************************************)
Undefined == [t |-> "undefined", n |-> 0, s |-> <<>>]
Null == [t |-> "null", n |-> 0, s |-> <<>>]
NaN == [t |-> "NaN", n |-> 0, s |-> <<>>]
Num(k) == [t |-> "number", n |-> k, s |-> <<>>]
Str(x) == [t |-> "string", n |-> 0, s |-> x]
Bool(b) == [t |-> "boolean", n |-> IF b THEN 1 ELSE 0, s |-> <<>>]

DigitChars == <<"0", "1", "2", "3", "4", "5", "6", "7", "8", "9">>
IsDigit(c) == \E i \in 1..Len(DigitChars) : DigitChars[i] = c
DigitVal(c) == (CHOOSE i \in 1..Len(DigitChars) : DigitChars[i] = c) - 1
\* \s of a regular expression, and the white space trim() removes
IsSpace(c) == c = " "

AllDigits(x) == \A i \in 1..Len(x) : IsDigit(x[i])

\* the decimal value of a run of digits
RECURSIVE DecimalValue(_)
DecimalValue(x) ==
    IF x = <<>> THEN 0
    ELSE 10 * DecimalValue(SubSeq(x, 1, Len(x) - 1)) + DigitVal(x[Len(x)])

\* String.prototype.trim
RECURSIVE TrimLeft(_)
TrimLeft(x) ==
    IF x # <<>> /\ IsSpace(x[1]) THEN TrimLeft(Tail(x)) ELSE x

RECURSIVE TrimRight(_)
TrimRight(x) ==
    IF x # <<>> /\ IsSpace(x[Len(x)]) THEN TrimRight(SubSeq(x, 1, Len(x) - 1)) ELSE x

Trim(x) == TrimRight(TrimLeft(x))

\* the decimal digits of a natural number, as String(n) writes them
RECURSIVE NatToText(_)
NatToText(k) ==
    IF k < 10 THEN <<DigitChars[k + 1]>>
    ELSE NatToText(k \div 10) \o <<DigitChars[(k % 10) + 1]>>

\* String(v)
ToText(v) ==
    CASE v.t = "string" -> v.s
      [] v.t = "number" -> IF v.n < 0 THEN <<"-">> \o NatToText(0 - v.n) ELSE NatToText(v.n)
      [] v.t = "boolean" -> IF v.n = 1 THEN <<"t", "r", "u", "e">> ELSE <<"f", "a", "l", "s", "e">>
      [] v.t = "null" -> <<"n", "u", "l", "l">>
      [] v.t = "NaN" -> <<"N", "a", "N">>
      [] OTHER -> <<"u", "n", "d", "e", "f", "i", "n", "e", "d">>

\* the longest prefix of x made of digits
RECURSIVE DigitPrefix(_)
DigitPrefix(x) ==
    IF x # <<>> /\ IsDigit(x[1]) THEN <<x[1]>> \o DigitPrefix(Tail(x)) ELSE <<>>

\* parseInt(v): String(v), leading white space skipped, an optional sign, then
\* the longest run of digits; NaN when there is no digit
parseInt(v) ==
    LET x == TrimLeft(ToText(v))
        neg == x # <<>> /\ x[1] = "-"
        body == IF x # <<>> /\ x[1] \in {"-", "+"} THEN Tail(x) ELSE x
        ds == DigitPrefix(body)
    IN  IF ds = <<>> THEN NaN
        ELSE Num(IF neg THEN 0 - DecimalValue(ds) ELSE DecimalValue(ds))

\* ToNumber(v), the conversion of the operators - and ==
ToNumber(v) ==
    CASE v.t = "number" -> v
      [] v.t = "boolean" -> Num(v.n)
      [] v.t = "null" -> Num(0)
      [] v.t = "string" ->
            LET x == Trim(v.s)
                neg == x # <<>> /\ x[1] = "-"
                body == IF x # <<>> /\ x[1] \in {"-", "+"} THEN Tail(x) ELSE x
            IN  IF x = <<>> THEN Num(0)
                ELSE IF body # <<>> /\ AllDigits(body)
                     THEN Num(IF neg THEN 0 - DecimalValue(body) ELSE DecimalValue(body))
                     ELSE NaN
      [] OTHER -> NaN

\* the truthiness of a value, as !v, v || w and if (v) read it
Truthy(v) ==
    CASE v.t = "number" -> v.n # 0
      [] v.t = "boolean" -> v.n = 1
      [] v.t = "string" -> v.s # <<>>
      [] OTHER -> FALSE

\* v || w
JsOr(v, w) == IF Truthy(v) THEN v ELSE w

\* v == w (loose equality) for the primitive values above
LooseEq(v, w) ==
    CASE v.t \in {"null", "undefined"} -> w.t \in {"null", "undefined"}
      [] w.t \in {"null", "undefined"} -> FALSE
      [] v.t = "string" /\ w.t = "string" -> v.s = w.s
      [] OTHER ->
            LET a == ToNumber(v)
                b == ToNumber(w)
            IN  a.t = "number" /\ b.t = "number" /\ a.n = b.n

\* v === w (strict equality)
StrictEq(v, w) ==
    /\ v.t = w.t
    /\ v.t # "NaN"
    /\ v.n = w.n
    /\ v.s = w.s

\* String(v).replace(/[rR]/g, '')
RECURSIVE DropRs(_)
DropRs(x) ==
    IF x = <<>> THEN <<>>
    ELSE IF x[1] \in {"r", "R"} THEN DropRs(Tail(x))
    ELSE <<x[1]>> \o DropRs(Tail(x))

\* Math.abs(v - w) <= k
AbsDiffAtMost(v, w, k) ==
    LET a == ToNumber(v)
        b == ToNumber(w)
    IN  /\ a.t = "number"
        /\ b.t = "number"
        /\ a.n - b.n <= k
        /\ b.n - a.n <= k

(***************************************************************************)
(* The tire specification parser.                                          *)
(***************************************************************************)
TypeCar == Str(<<"c", "a", "r">>)
TypeTruck == Str(<<"t", "r", "u", "c", "k">>)

\* the result of String.prototype.match when the pattern does not match
NoMatch == <<>>

\* \s* from position i: the first position at or after i that holds no white space
RECURSIVE SkipSpaces(_, _)
SkipSpaces(x, i) ==
    IF i <= Len(x) /\ IsSpace(x[i]) THEN SkipSpaces(x, i + 1) ELSE i

\* \d{k} at position i
DigitsAt(x, i, k) == i + k - 1 <= Len(x) /\ \A j \in i..(i + k - 1) : IsDigit(x[j])
\* one character of the class cs at position i
CharAt(x, i, cs) == i <= Len(x) /\ x[i] \in cs
\* \s at position i
SpaceAt(x, i) == i <= Len(x) /\ IsSpace(x[i])

\* name.match(/^(\d{3})\s+(\d{2})\s+(\d{2})\s/): the three groups, or NoMatch
carTirePattern(name) ==
    LET a == SkipSpaces(name, 4)
        d == SkipSpaces(name, a + 2)
    IN  IF /\ DigitsAt(name, 1, 3)
           /\ a > 4
           /\ DigitsAt(name, a, 2)
           /\ d > a + 2
           /\ DigitsAt(name, d, 2)
           /\ SpaceAt(name, d + 2)
        THEN <<SubSeq(name, 1, 3), SubSeq(name, a, a + 1), SubSeq(name, d, d + 1)>>
        ELSE NoMatch

\* name.match(/^(\d{3})\s+(\d{2})\s+R(\d{2})\s/)
carTireWithRPattern(name) ==
    LET a == SkipSpaces(name, 4)
        r == SkipSpaces(name, a + 2)
    IN  IF /\ DigitsAt(name, 1, 3)
           /\ a > 4
           /\ DigitsAt(name, a, 2)
           /\ r > a + 2
           /\ CharAt(name, r, {"R"})
           /\ DigitsAt(name, r + 1, 2)
           /\ SpaceAt(name, r + 3)
        THEN <<SubSeq(name, 1, 3), SubSeq(name, a, a + 1), SubSeq(name, r + 1, r + 2)>>
        ELSE NoMatch

\* name.match(/^(\d{3,4})\s+R(\d{2})\s/): \d{3,4} is greedy, and the white
\* space that must follow decides between three and four digits
truckTirePattern(name) ==
    LET k == IF DigitsAt(name, 1, 4) THEN 4 ELSE 3
        r == SkipSpaces(name, k + 1)
    IN  IF /\ DigitsAt(name, 1, k)
           /\ r > k + 1
           /\ CharAt(name, r, {"R"})
           /\ DigitsAt(name, r + 1, 2)
           /\ SpaceAt(name, r + 3)
        THEN <<SubSeq(name, 1, k), SubSeq(name, r + 1, r + 2)>>
        ELSE NoMatch

\* /(\d{3})\/(\d{2})[-R](\d{2})/ matched at position i
standardAt(name, i) ==
    /\ DigitsAt(name, i, 3)
    /\ CharAt(name, i + 3, {"/"})
    /\ DigitsAt(name, i + 4, 2)
    /\ CharAt(name, i + 6, {"-", "R"})
    /\ DigitsAt(name, i + 7, 2)

\* name.match(/(\d{3})\/(\d{2})[-R](\d{2})/): the leftmost match anywhere
standardPattern(name) ==
    LET at == {i \in 1..Len(name) : standardAt(name, i)}
        i == CHOOSE j \in at : \A k \in at : j <= k
    IN  IF at = {} THEN NoMatch
        ELSE <<SubSeq(name, i, i + 2), SubSeq(name, i + 4, i + 5), SubSeq(name, i + 7, i + 8)>>

\* the specs object as first built: every field null
emptySpecs(name) ==
    [width |-> Null, aspect_ratio |-> Null, rim_diameter |-> Null, type |-> Null,
     original |-> name]

\* the assignments of a car branch (patterns 1, 2 and 4)
carSpecs(name, m) ==
    [width |-> parseInt(Str(m[1])), aspect_ratio |-> parseInt(Str(m[2])),
     rim_diameter |-> parseInt(Str(m[3])), type |-> TypeCar, original |-> name]

truckSpecs_typeCar(name, m) ==
    [width |-> parseInt(Str(m[1])), aspect_ratio |-> Null,
     rim_diameter |-> parseInt(Str(m[2])), type |-> TypeCar, original |-> name]

\* the assignments of the truck branch (pattern 3)
truckSpecs(name, m) ==
    [width |-> parseInt(Str(m[1])), aspect_ratio |-> Null,
     rim_diameter |-> parseInt(Str(m[2])), type |-> TypeTruck, original |-> name]

parseTireSpecification_inlineFirst(productName) ==
    LET name == Trim(ToText(JsOr(productName, Str(<<>>))))
        carMatch == carTirePattern(name)
        carWithRMatch == carTireWithRPattern(name)
        truckMatch == truckTirePattern(name)
        standardMatch == standardPattern(name)
    IN  IF standardMatch # NoMatch THEN carSpecs(name, standardMatch)
        ELSE IF carMatch # NoMatch THEN carSpecs(name, carMatch)
        ELSE IF carWithRMatch # NoMatch THEN carSpecs(name, carWithRMatch)
        ELSE IF truckMatch # NoMatch THEN truckSpecs(name, truckMatch)
        ELSE emptySpecs(name)

\* parseTireSpecification(productName): the four patterns in order, the first
\* that matches returns
parseTireSpecification(productName) ==
    LET name == Trim(ToText(JsOr(productName, Str(<<>>))))
        carMatch == carTirePattern(name)
        carWithRMatch == carTireWithRPattern(name)
        truckMatch == truckTirePattern(name)
        standardMatch == standardPattern(name)
    IN  IF carMatch # NoMatch THEN carSpecs(name, carMatch)
        ELSE IF carWithRMatch # NoMatch THEN carSpecs(name, carWithRMatch)
        ELSE IF truckMatch # NoMatch THEN truckSpecs(name, truckMatch)
        ELSE IF standardMatch # NoMatch THEN carSpecs(name, standardMatch)
        ELSE emptySpecs(name)

(***************************************************************************)
(* Product names the parser is run on: a width, an aspect ratio and a      *)
(* diameter token with their separators, between a lead and a tail.        *)
(***************************************************************************)
Spaces(k) == [i \in 1..k |-> " "]

LeadTexts == {<<>>, <<" ">>, <<"X", " ">>}
WidthTexts == {<<"1", "5", "5">>, <<"1", "1", "0", "0">>, <<"1", "5">>}
AspectTexts == {<<>>, <<"7", "0">>, <<"0", "5">>, <<"7">>}
DiameterTexts ==
    {<<>>, <<"1", "3">>, <<"R", "1", "3">>, <<"r", "1", "3">>, <<"1", "3", "5">>}
Sep1Texts == {Spaces(k) : k \in 0..MaxSpaces} \cup {<<"/">>}
Sep2Texts == {Spaces(k) : k \in 0..MaxSpaces} \cup {<<"-">>, <<"R">>}
EndTexts == {<<>>, <<" ">>}
TailTexts ==
    {<<>>, <<"X">>, <<"2", "0", "5", "/", "5", "5", "R", "1", "6">>,
     <<"X", " ", "2", "0", "5", "/", "5", "5", "-", "1", "6", "Y">>}

ParseNames ==
    {l \o w \o s1 \o a \o s2 \o d \o e \o t :
        l \in LeadTexts, w \in WidthTexts, s1 \in Sep1Texts, a \in AspectTexts,
        s2 \in Sep2Texts, d \in DiameterTexts, e \in EndTexts, t \in TailTexts}

(***************************************************************************)
(* POST /api/price-list/tire-parse.  The request is the one pending since  *)
(* the initial state; the handler answers it once.                         *)
(***************************************************************************)
\* no response sent yet
NoResponse == [status |-> 0]
\* no request waits behind the one being handled
NoRequest == [op |-> "none"]
\* what loadExcelData finds when the workbook cannot be read
NoFile == [ok |-> FALSE, rows |-> <<>>]

ParseRequests ==
    {[op |-> "tire-parse", product_name |-> Str(n)] : n \in ParseNames}
        \cup {[op |-> "tire-parse", product_name |-> Undefined]}

TireParse ==
    /\ req.op = "tire-parse"
    /\ res = NoResponse
    /\ res' = IF ~Truthy(req.product_name)
              THEN [status |-> 400, success |-> FALSE]
              ELSE LET specs == parseTireSpecification(req.product_name)
                   IN  [status |-> 200, success |-> TRUE, input |-> req.product_name,
                        parsed_specs |-> specs,
                        is_parseable |-> ~StrictEq(specs.width, Null)]
    /\ UNCHANGED <<priceListData, loaded, req, queued, matchingTires, citasVars>>

InitParse ==
    /\ priceListData = <<>>
    /\ loaded = <<NoFile>>
    /\ req \in ParseRequests
    /\ queued = NoRequest
    /\ res = NoResponse
    /\ matchingTires = <<>>
    /\ hoja = <<>>
    /\ calls = <<>>
    /\ CONFIG = DefaultConfig

NextParse == TireParse

SpecParse == InitParse /\ [][NextParse]_vars

(***************************************************************************)
(* The spreadsheet: rows of a catalogue of products, each written from a   *)
(* size in one of the four formats (fmt 0: a name with no size).           *)
(***************************************************************************)
CatalogItems ==
    {[id |-> 1, fmt |-> 1, w |-> 155, a |-> 70, d |-> 13, brand |-> <<"A">>, price |-> 20],
     [id |-> 2, fmt |-> 2, w |-> 155, a |-> 70, d |-> 13, brand |-> <<"B">>, price |-> 10],
     [id |-> 3, fmt |-> 4, w |-> 155, a |-> 65, d |-> 13, brand |-> <<"C">>, price |-> 30],
     [id |-> 4, fmt |-> 1, w |-> 155, a |-> 76, d |-> 13, brand |-> <<"D">>, price |-> 10],
     [id |-> 5, fmt |-> 3, w |-> 155, a |-> 0, d |-> 13, brand |-> <<"E">>, price |-> 10],
     [id |-> 6, fmt |-> 3, w |-> 1100, a |-> 0, d |-> 22, brand |-> <<"F">>, price |-> 40],
     [id |-> 7, fmt |-> 0, w |-> 0, a |-> 0, d |-> 0, brand |-> <<"O", "I", "L">>, price |-> 5]}

\* the product name of a catalogue item
ItemName(it) ==
    CASE it.fmt = 1 ->
            NatToText(it.w) \o <<" ">> \o NatToText(it.a) \o <<" ">> \o NatToText(it.d)
                \o <<" ">> \o it.brand
      [] it.fmt = 2 ->
            NatToText(it.w) \o <<" ">> \o NatToText(it.a) \o <<" ", "R">> \o NatToText(it.d)
                \o <<" ">> \o it.brand
      [] it.fmt = 3 ->
            NatToText(it.w) \o <<" ", "R">> \o NatToText(it.d) \o <<" ">> \o it.brand
      [] it.fmt = 4 ->
            it.brand \o <<" ">> \o NatToText(it.w) \o <<"/">> \o NatToText(it.a) \o <<"R">>
                \o NatToText(it.d)
      [] OTHER -> it.brand

\* the row XLSX.utils.sheet_to_json gives for a catalogue item
ItemRow(it) ==
    [ID_Producto |-> Num(it.id), Producto |-> Str(ItemName(it)), Exit |-> Num(1),
     PRECIO_FINAL |-> Num(it.price)]

SeqsUpTo(S, k) == UNION {[1..m -> S] : m \in 0..k}

\* what the spreadsheet can hold
Datasets == SeqsUpTo({ItemRow(it) : it \in CatalogItems}, MaxRows)

(***************************************************************************)
(* loadExcelData and POST /api/price-list/reload                           *)
(***************************************************************************)
loadExcelData_clears(ok, rows) == priceListData' = IF ok THEN rows ELSE <<>>

\* loadExcelData(): the rows are assigned only when the file was read; the
\* value returned is ok
loadExcelData_merges(ok, rows) ==
    priceListData' = IF ok THEN priceListData \o rows ELSE priceListData

loadExcelData_partial(ok, rows) ==
    priceListData' = IF ok THEN SubSeq(rows, 1, Len(rows) - 1) ELSE priceListData

loadExcelData(ok, rows) ==
    priceListData' = IF ok THEN rows ELSE priceListData

\* the workbooks the reload of the model can find on disk
WorkbookItems == {it \in CatalogItems : it.id \in {1, 2, 5}}

Workbooks == SeqsUpTo({ItemRow(it) : it \in WorkbookItems}, MaxFileRows)

\* what a call of loadExcelData can find: no readable workbook, or its rows
FileReads == {NoFile} \cup {[ok |-> TRUE, rows |-> rows] : rows \in Workbooks}

\* loaded keeps what each call of loadExcelData found, the last call last
Reload ==
    /\ req.op = "reload"
    /\ res = NoResponse
    /\ \E found \in FileReads :
            /\ loaded' = Append(loaded, found)
            /\ loadExcelData(found.ok, found.rows)
            /\ res' = [status |-> 200, success |-> found.ok, total |-> Len(priceListData')]
    /\ UNCHANGED <<req, queued, matchingTires, citasVars>>

(***************************************************************************)
(* POST /api/price-list/tire-search                                        *)
(***************************************************************************)
Min(a, b) == IF a <= b THEN a ELSE b
Max(a, b) == IF a >= b THEN a ELSE b

\* a destructuring default: { key = d } = req.body
Default(v, d) == IF v = Undefined THEN d ELSE v

\* parseFloat(v): the prices of the model are whole numbers, whose text
\* parseFloat reads as parseInt does
parseFloat(v) == parseInt(v)

\* priceListData.map(... tire_specs ...).filter(width !== null)
tireProductsOf(data) ==
    LET withSpecs ==
            [i \in 1..Len(data) |->
                [ID_Producto |-> data[i].ID_Producto, Producto |-> data[i].Producto,
                 Exit |-> data[i].Exit, PRECIO_FINAL |-> data[i].PRECIO_FINAL,
                 tire_specs |-> parseTireSpecification(data[i].Producto)]]
        Parseable(p) == ~StrictEq(p.tire_specs.width, Null)
    IN  SelectSeq(withSpecs, Parseable)

\* parseInt(String(v).replace(/[rR]/g, ''))
diameterNumber(v) == parseInt(Str(DropRs(ToText(v))))

\* the exact branch of a car search
carExactMatch_fuzzyAspect(specs, finalAspectRatio, finalRimDiameter) ==
    /\ AbsDiffAtMost(specs.aspect_ratio, finalAspectRatio, 5)
    /\ LooseEq(specs.rim_diameter, finalRimDiameter)

carExactMatch(specs, finalAspectRatio, finalRimDiameter) ==
    /\ LooseEq(specs.aspect_ratio, finalAspectRatio)
    /\ LooseEq(specs.rim_diameter, finalRimDiameter)

carFuzzyMatch_below5(specs, finalAspectRatio, finalRimDiameter) ==
    LET aspectMatch ==
            \/ ~Truthy(finalAspectRatio)
            \/ AbsDiffAtMost(specs.aspect_ratio, finalAspectRatio, 4)
        rimMatch ==
            IF Truthy(finalRimDiameter)
            THEN StrictEq(diameterNumber(finalRimDiameter),
                          diameterNumber(specs.rim_diameter))
            ELSE TRUE
    IN  aspectMatch /\ rimMatch

\* the range branch of a car search: the aspect ratio within 5, the diameter
\* equal once the R is dropped
carFuzzyMatch(specs, finalAspectRatio, finalRimDiameter) ==
    LET aspectMatch ==
            \/ ~Truthy(finalAspectRatio)
            \/ AbsDiffAtMost(specs.aspect_ratio, finalAspectRatio, 5)
        rimMatch ==
            IF Truthy(finalRimDiameter)
            THEN StrictEq(diameterNumber(finalRimDiameter),
                          diameterNumber(specs.rim_diameter))
            ELSE TRUE
    IN  aspectMatch /\ rimMatch

truckMatch_keepsR(specs, finalRimDiameter) ==
    IF ~Truthy(finalRimDiameter) THEN TRUE
    ELSE StrictEq(parseInt(finalRimDiameter), parseInt(specs.rim_diameter))

\* the branch of a truck search: width and diameter only
truckMatch(specs, finalRimDiameter) ==
    IF ~Truthy(finalRimDiameter) THEN TRUE
    ELSE StrictEq(diameterNumber(finalRimDiameter), diameterNumber(specs.rim_diameter))

\* the predicate of tireProducts.filter(...)
tireMatches(specs, width, searchType, finalAspectRatio, finalRimDiameter, exact_match) ==
    IF ~LooseEq(specs.width, width) THEN FALSE
    ELSE IF searchType = "car"
    THEN IF Truthy(exact_match)
         THEN carExactMatch(specs, finalAspectRatio, finalRimDiameter)
         ELSE carFuzzyMatch(specs, finalAspectRatio, finalRimDiameter)
    ELSE truckMatch(specs, finalRimDiameter)

\* the price a row is sorted by: parseFloat(row['PRECIO FINAL']) || 0
sortPrice(row) == JsOr(parseFloat(row.PRECIO_FINAL), Num(0)).n

\* one row put into an array sorted by price, after the rows that do not cost more
RECURSIVE insertByPrice(_, _)
insertByPrice(sorted, row) ==
    IF sorted = <<>> THEN <<row>>
    ELSE IF sortPrice(sorted[Len(sorted)]) <= sortPrice(row) THEN Append(sorted, row)
    ELSE Append(insertByPrice(SubSeq(sorted, 1, Len(sorted) - 1), row), sorted[Len(sorted)])

sortByPrice_unsorted(rows) == rows

\* matchingTires.sort((a, b) => priceA - priceB): ascending, and stable
RECURSIVE sortByPrice(_)
sortByPrice(rows) ==
    IF rows = <<>> THEN <<>>
    ELSE insertByPrice(sortByPrice(SubSeq(rows, 1, Len(rows) - 1)), rows[Len(rows)])

\* Math.min(Math.max(parseInt(limit) || 10, 1), 100)
resultLimitOf(limit) == Min(Max(JsOr(parseInt(limit), Num(10)).n, 1), 100)

resultsOf_oneShort(sorted, resultLimit) ==
    [i \in 1..Min(Len(sorted), resultLimit - 1) |->
        [id |-> sorted[i].ID_Producto, product |-> sorted[i].Producto,
         stock |-> sorted[i].Exit, price |-> sorted[i].PRECIO_FINAL,
         specs |-> sorted[i].tire_specs]]

\* matchingTires.slice(0, resultLimit).map(...)
resultsOf(sorted, resultLimit) ==
    [i \in 1..Min(Len(sorted), resultLimit) |->
        [id |-> sorted[i].ID_Producto, product |-> sorted[i].Producto,
         stock |-> sorted[i].Exit, price |-> sorted[i].PRECIO_FINAL,
         specs |-> sorted[i].tire_specs]]

\* the handler on the product set data and the request body: the response,
\* and the handler's array matchingTires as it is when the response is sent
tireSearch(data, body) ==
    LET width == body.width
        exact_match == Default(body.exact_match, Bool(FALSE))
        limit == Default(body.limit, Num(10))
        finalAspectRatio == JsOr(body.aspect_ratio, body.aspectRatio)
        finalRimDiameter == JsOr(body.rim_diameter, body.diameter)
        searchType == IF Truthy(finalAspectRatio) THEN "car" ELSE "truck"
        tireProducts == tireProductsOf(data)
        Matches(p) ==
            tireMatches(p.tire_specs, width, searchType, finalAspectRatio,
                        finalRimDiameter, exact_match)
        sorted == sortByPrice(SelectSeq(tireProducts, Matches))
        resultLimit == resultLimitOf(limit)
        IsCar(p) == p.tire_specs.type = TypeCar
        IsTruck(p) == p.tire_specs.type = TypeTruck
    IN  IF ~Truthy(width)
        THEN [res |-> [status |-> 400, success |-> FALSE], matchingTires |-> <<>>]
        ELSE [res |->
                [status |-> 200,
                 raw |->
                    [searchType |-> searchType,
                     totalFound |-> Len(sorted),
                     results |-> resultsOf(sorted, resultLimit),
                     searchParams |->
                        [width |-> width,
                         aspectRatio |-> JsOr(finalAspectRatio, Null),
                         diameter |-> JsOr(finalRimDiameter, Null),
                         type |-> searchType,
                         exactMatch |-> exact_match,
                         limit |-> resultLimit],
                     statistics |->
                        [totalTireProducts |-> Len(tireProducts),
                         carTires |-> Len(SelectSeq(tireProducts, IsCar)),
                         truckTires |-> Len(SelectSeq(tireProducts, IsTruck))]]],
              matchingTires |-> sorted]

\* POST /api/price-list/tire-search, and /tire-search-es, the same search
\* worded in Spanish
TireSearch ==
    /\ req.op \in {"tire-search", "tire-search-es"}
    /\ res = NoResponse
    /\ LET out == tireSearch(priceListData, req.body)
       IN  /\ res' = out.res
           /\ matchingTires' = out.matchingTires
    /\ UNCHANGED <<priceListData, loaded, req, queued, citasVars>>

(***************************************************************************)
(* The requests.                                                           *)
(***************************************************************************)
Text13 == <<"1", "3">>
Text22 == <<"2", "2">>
Text70 == <<"7", "0">>
Text155 == <<"1", "5", "5">>

TireBody(width, aspect_ratio, rim_diameter, exact_match, limit) ==
    [width |-> width, aspect_ratio |-> aspect_ratio, aspectRatio |-> Undefined,
     rim_diameter |-> rim_diameter, diameter |-> Undefined,
     exact_match |-> exact_match, limit |-> limit]

CarBodies ==
    {TireBody(w, a, d, x, l) :
        w \in {Num(155), Str(Text155)},
        a \in {Num(70), Num(71), Str(Text70)},
        d \in {Undefined, Num(13), Str(Text13), Str(<<"R">> \o Text13), Num(14)},
        x \in {Undefined, Bool(TRUE)},
        l \in {Undefined, Num(1)}}

TruckBodies ==
    {TireBody(w, Undefined, d, x, l) :
        w \in {Num(155), Num(1100)},
        d \in {Undefined, Num(13), Str(<<"R">> \o Text13), Num(22), Str(<<"r">> \o Text22)},
        x \in {Undefined, Bool(TRUE)},
        l \in {Undefined, Num(1)}}

LimitValues ==
    {Num(0), Num(0 - 3), Num(2), Num(100), Num(101), Num(250), Str(<<"2">>),
     Str(<<"a", "b", "c">>), Null}

LimitBodies ==
    {TireBody(Num(155), a, Undefined, Undefined, l) :
        a \in {Undefined, Num(70)}, l \in LimitValues}

TireSearchRequests ==
    {[op |-> "tire-search", body |-> b] :
        b \in CarBodies \cup TruckBodies \cup LimitBodies
                \cup {TireBody(Undefined, Num(70), Num(13), Undefined, Undefined)}}

Requests == TireSearchRequests

\* a body written with the parameter names of the README
DocumentedBody(width, aspectRatio, diameter, exactMatch) ==
    [width |-> width, aspect_ratio |-> Undefined, aspectRatio |-> aspectRatio,
     rim_diameter |-> Undefined, diameter |-> diameter,
     exact_match |-> Undefined, limit |-> Undefined, exactMatch |-> exactMatch]

DocumentedRequests ==
    {[op |-> "tire-search", body |-> DocumentedBody(Str(Text155), a, d, x)] :
        a \in {Str(Text70), Num(71)},
        d \in {Str(Text13), Num(13)},
        x \in {Undefined, Bool(FALSE), Bool(TRUE)}}

Init ==
    /\ priceListData \in Datasets
    /\ loaded = <<[ok |-> TRUE, rows |-> priceListData]>>
    /\ req \in Requests
    /\ queued = NoRequest
    /\ res = NoResponse
    /\ matchingTires = <<>>
    /\ hoja = <<>>
    /\ calls = <<>>
    /\ CONFIG = DefaultConfig

Next == TireSearch

Spec == Init /\ [][Next]_vars

\* the tire search answering the requests the README documents
InitDocumented ==
    /\ priceListData \in Datasets
    /\ loaded = <<[ok |-> TRUE, rows |-> priceListData]>>
    /\ req \in DocumentedRequests
    /\ queued = NoRequest
    /\ res = NoResponse
    /\ matchingTires = <<>>
    /\ hoja = <<>>
    /\ calls = <<>>
    /\ CONFIG = DefaultConfig

NextDocumented == TireSearch

SpecDocumented == InitDocumented /\ [][NextDocumented]_vars

(***************************************************************************)
(* The other endpoints of the price-list service, and the service handling *)
(* one request after another: every handler is synchronous, so a request   *)
(* is handled to its response before the next one is taken up.             *)
(***************************************************************************)
UpperChars ==
    <<"A", "B", "C", "D", "E", "F", "G", "H", "I", "J", "K", "L", "M",
      "N", "O", "P", "Q", "R", "S", "T", "U", "V", "W", "X", "Y", "Z">>
LowerChars ==
    <<"a", "b", "c", "d", "e", "f", "g", "h", "i", "j", "k", "l", "m",
      "n", "o", "p", "q", "r", "s", "t", "u", "v", "w", "x", "y", "z">>

\* String.prototype.toLowerCase
toLowerCase(x) ==
    [i \in 1..Len(x) |->
        IF \E k \in 1..Len(UpperChars) : UpperChars[k] = x[i]
        THEN LowerChars[CHOOSE k \in 1..Len(UpperChars) : UpperChars[k] = x[i]]
        ELSE x[i]]

\* String.prototype.includes
includes(x, y) ==
    y = <<>> \/ \E i \in 1..(Len(x) - Len(y) + 1) : SubSeq(x, i, i + Len(y) - 1) = y

\* Array.prototype.slice(0, n)
sliceTo(x, n) == SubSeq(x, 1, IF n < 0 THEN Max(Len(x) + n, 0) ELSE Min(n, Len(x)))

\* GET /api/price-list/health
health(data) ==
    [status |-> 200, dataLoaded |-> Len(data) > 0, totalRecords |-> Len(data)]

\* GET /api/price-list/products
products(data) ==
    [status |-> 200, success |-> TRUE, data |-> data, total |-> Len(data)]

\* GET /api/price-list/product/:id
productById(data, id) ==
    LET Is(item) ==
            toLowerCase(ToText(JsOr(item.ID_Producto, Str(<<>>)))) = toLowerCase(id)
        found == SelectSeq(data, Is)
    IN  IF id = <<>> THEN [status |-> 400, success |-> FALSE]
        ELSE IF found # <<>>
             THEN [status |-> 200,
                   raw |-> [id |-> found[1].ID_Producto, product |-> found[1].Producto,
                            stock |-> found[1].Exit, finalPrice |-> found[1].PRECIO_FINAL,
                            searchedId |-> id]]
             ELSE [status |-> 404, raw |-> [searchedId |-> id, found |-> FALSE]]

\* the array priceListData as the search handler leaves it, had it sorted the
\* array itself
searchLeaves_sortedInPlace(data) == sortByPrice(data)

\* the array priceListData as the search handler leaves it: results is a copy
\* ([...priceListData]), and filter, slice and sort work on the copy
searchLeaves(data) == data

\* POST /api/price-list/search
search(data, body) ==
    LET query == body.query
        productId == body.productId
        productName == body.productName
        priceMin == body.priceMin
        priceMax == body.priceMax
        limit == Default(body.limit, Num(50))
        idProducto(item) == toLowerCase(ToText(JsOr(item.ID_Producto, Str(<<>>))))
        producto(item) == toLowerCase(ToText(JsOr(item.Producto, Str(<<>>))))
        term(v) == Trim(toLowerCase(ToText(v)))
        ByQuery(item) ==
            includes(idProducto(item), term(query)) \/ includes(producto(item), term(query))
        ById(item) == includes(idProducto(item), term(productId))
        ByName(item) == includes(producto(item), term(productName))
        \* a comparison with NaN is false
        InRange(item) ==
            /\ priceMin # Undefined =>
                    /\ parseFloat(priceMin).t = "number"
                    /\ sortPrice(item) >= parseFloat(priceMin).n
            /\ priceMax # Undefined =>
                    /\ parseFloat(priceMax).t = "number"
                    /\ sortPrice(item) <= parseFloat(priceMax).n
        r1 == IF Truthy(query) THEN SelectSeq(data, ByQuery) ELSE data
        r2 == IF Truthy(productId) THEN SelectSeq(r1, ById) ELSE r1
        r3 == IF Truthy(productName) THEN SelectSeq(r2, ByName) ELSE r2
        r4 == IF priceMin # Undefined \/ priceMax # Undefined
              THEN SelectSeq(r3, InRange) ELSE r3
        limitNum == JsOr(parseInt(limit), Num(50)).n
        r5 == IF Len(r4) > limitNum THEN sliceTo(r4, limitNum) ELSE r4
        results == sortByPrice(r5)
        shown == sliceTo(results, 10)
    IN  IF /\ ~Truthy(query) /\ ~Truthy(productId) /\ ~Truthy(productName)
           /\ ~Truthy(priceMin) /\ ~Truthy(priceMax)
        THEN [status |-> 400, success |-> FALSE]
        ELSE [status |-> 200,
              raw |->
                [totalFound |-> Len(results),
                 results |->
                    [i \in 1..Len(shown) |->
                        [id |-> shown[i].ID_Producto, product |-> shown[i].Producto,
                         stock |-> shown[i].Exit, finalPrice |-> shown[i].PRECIO_FINAL]],
                 searchParams |->
                    [query |-> JsOr(query, Null), productId |-> JsOr(productId, Null),
                     productName |-> JsOr(productName, Null),
                     priceRange |-> [min |-> JsOr(priceMin, Null), max |-> JsOr(priceMax, Null)],
                     limit |-> limitNum],
                 isLimited |-> Len(data) > limitNum /\ Len(results) = limitNum]]

Health ==
    /\ req.op = "health"
    /\ res = NoResponse
    /\ res' = health(priceListData)
    /\ UNCHANGED <<priceListData, loaded, req, queued, matchingTires, citasVars>>

Products ==
    /\ req.op = "products"
    /\ res = NoResponse
    /\ res' = products(priceListData)
    /\ UNCHANGED <<priceListData, loaded, req, queued, matchingTires, citasVars>>

ProductById ==
    /\ req.op = "product"
    /\ res = NoResponse
    /\ res' = productById(priceListData, req.id)
    /\ UNCHANGED <<priceListData, loaded, req, queued, matchingTires, citasVars>>

Search ==
    /\ req.op = "search"
    /\ res = NoResponse
    /\ res' = search(priceListData, req.body)
    /\ priceListData' = searchLeaves(priceListData)
    /\ UNCHANGED <<loaded, req, queued, matchingTires, citasVars>>

\* the response sent, the request that waited is taken up
NextRequest ==
    /\ res # NoResponse
    /\ queued # NoRequest
    /\ req' = queued
    /\ queued' = NoRequest
    /\ res' = NoResponse
    /\ matchingTires' = <<>>
    /\ UNCHANGED <<priceListData, loaded, citasVars>>

SearchBody(query, productId, productName, priceMin, priceMax, limit) ==
    [query |-> query, productId |-> productId, productName |-> productName,
     priceMin |-> priceMin, priceMax |-> priceMax, limit |-> limit]

\* the requests that read the product set
ReadRequests ==
    {[op |-> "health"],
     [op |-> "products"],
     [op |-> "product", id |-> <<"2">>],
     [op |-> "search",
      body |-> SearchBody(Str(Text155), Undefined, Undefined, Undefined, Undefined, Undefined)],
     [op |-> "tire-search",
      body |-> TireBody(Num(155), Num(70), Num(13), Undefined, Undefined)],
     [op |-> "tire-search-es",
      body |-> TireBody(Num(155), Undefined, Undefined, Undefined, Undefined)],
     [op |-> "tire-parse", product_name |-> Str(<<"1", "5", "5", " ", "R", "1", "3", " ", "E">>)]}

ServiceRequests == ReadRequests \cup {[op |-> "reload"]}

\* the service started (loadExcelData() on startup), one request received
\* and at most one more waiting behind it
InitService ==
    /\ \E found \in FileReads :
            /\ loaded = <<found>>
            /\ priceListData = IF found.ok THEN found.rows ELSE <<>>
    /\ req \in ServiceRequests
    /\ queued \in ServiceRequests \cup {NoRequest}
    /\ res = NoResponse
    /\ matchingTires = <<>>
    /\ hoja = <<>>
    /\ calls = <<>>
    /\ CONFIG = DefaultConfig

NextService ==
    \/ Reload
    \/ Health
    \/ Products
    \/ ProductById
    \/ Search
    \/ TireSearch
    \/ TireParse
    \/ NextRequest

SpecService == InitService /\ [][NextService]_vars

(***************************************************************************)
(* POST /api/price-list/search answering bodies of every shape.            *)
(***************************************************************************)
TextOil == <<"o", "i", "l">>

\* bodies with a query, prices and a limit, and bodies with an id or a name
SearchBodies ==
    {SearchBody(q, Undefined, Undefined, mn, mx, l) :
        q \in {Undefined, Str(Text155)},
        mn \in {Undefined, Num(0), Num(20)},
        mx \in {Undefined, Num(0), Num(20)},
        l \in {Undefined, Num(1)}}
    \cup
    {SearchBody(Undefined, id, name, Undefined, Undefined, Undefined) :
        id \in {Undefined, Num(0), Num(2)},
        name \in {Undefined, Str(<<>>), Str(TextOil)}}

InitSearch ==
    /\ priceListData \in Datasets
    /\ loaded = <<[ok |-> TRUE, rows |-> priceListData]>>
    /\ req \in {[op |-> "search", body |-> b] : b \in SearchBodies}
    /\ queued = NoRequest
    /\ res = NoResponse
    /\ matchingTires = <<>>
    /\ hoja = <<>>
    /\ calls = <<>>
    /\ CONFIG = DefaultConfig

NextSearch == Search

SpecSearch == InitSearch /\ [][NextSearch]_vars

(***************************************************************************)
(* The booking services (src/unnamed/part_001, part_003, part_004): POST   *)
(* /api/citas/agendar over a sheet of bookings.  hoja is the sheet, its    *)
(* first row the headers; calls are the requests in flight, each with the  *)
(* revision that serves it, its body, its position in the handler, the     *)
(* rows it read and its response.  A cell and a field of a body are texts; *)
(* the empty text stands for a cell or a field that is missing.            *)
(***************************************************************************)
InvalidDate == 0 - 1
MinutesPerDay == 1440

TwoDigits(k) == IF k < 10 THEN <<"0">> \o NatToText(k) ELSE NatToText(k)

\* the date part of an ISO date-time: YYYY-MM-DD
ValidFecha(f) ==
    /\ Len(f) = 10
    /\ f[5] = "-" /\ f[8] = "-"
    /\ \A i \in {1, 2, 3, 4, 6, 7, 9, 10} : IsDigit(f[i])
    /\ DecimalValue(SubSeq(f, 6, 7)) \in 1..12
    /\ DecimalValue(SubSeq(f, 9, 10)) \in 1..31

\* the time part of an ISO date-time: HH:MM
ValidHora(h) ==
    /\ Len(h) = 5
    /\ h[3] = ":"
    /\ \A i \in {1, 2, 4, 5} : IsDigit(h[i])
    /\ DecimalValue(SubSeq(h, 1, 2)) \in 0..23
    /\ DecimalValue(SubSeq(h, 4, 5)) \in 0..59

\* the days before a date, counted with months of 31 days: dates keep their
\* order, and the distance of two dates of one month is exact
DayNumber(f) ==
    (DecimalValue(SubSeq(f, 1, 4)) * 12 + DecimalValue(SubSeq(f, 6, 7))) * 31
        + DecimalValue(SubSeq(f, 9, 10))

MinuteOfDay(h) == DecimalValue(SubSeq(h, 1, 2)) * 60 + DecimalValue(SubSeq(h, 4, 5))

\* new Date(`${fecha}T${hora}:00`): the local time in minutes, or Invalid Date
newDate(fecha, hora) ==
    IF ValidFecha(fecha) /\ ValidHora(hora)
    THEN DayNumber(fecha) * MinutesPerDay + MinuteOfDay(hora)
    ELSE InvalidDate

\* new Date(date.getTime() + minutes * 60000)
plusMinutes(date, minutes) == IF date = InvalidDate THEN InvalidDate ELSE date + minutes

\* a < b on two Dates: false when either is Invalid Date
dateLess(a, b) == a # InvalidDate /\ b # InvalidDate /\ a < b

\* date.toTimeString().substring(0, 5)
toTimeString5(date) ==
    TwoDigits((date % MinutesPerDay) \div 60) \o <<":">> \o TwoDigits(date % 60)

TextCita == <<"c", "i", "t", "a">>

duracion_caseSensitive(servicio) == IF servicio = TextCita THEN 60 ELSE 30

\* servicio.toLowerCase() === 'cita' ? 60 : 30
duracion(servicio) == IF toLowerCase(servicio) = TextCita THEN 60 ELSE 30

\* the columns (from 0) of fecha, hora and servicio in a row of the sheet
Columns(rev) ==
    CASE rev = "part_001" -> [fecha |-> 5, hora |-> 6, servicio |-> 7, width |-> 9]
      [] rev = "part_003" -> [fecha |-> 7, hora |-> 8, servicio |-> 9, width |-> 11]
      [] OTHER -> [fecha |-> 6, hora |-> 7, servicio |-> 8, width |-> 10]

\* cita[k]: undefined past the end of the row
Cell(cita, k) == IF k + 1 <= Len(cita) THEN cita[k + 1] ELSE <<>>

TextId == <<"A", "P", "T">>

\* nuevaFila: the row written for a body
nuevaFila(rev, body) ==
    CASE rev = "part_001" ->
            <<body.nombre, <<>>, <<>>, <<>>, <<>>, body.fecha, body.hora, body.servicio, <<>>>>
      [] rev = "part_003" ->
            <<TextId, body.nombre, body.email, <<>>, <<>>, <<>>, <<>>, body.fecha, body.hora,
              body.servicio, <<>>>>
      [] OTHER ->
            <<TextId, body.nombre, <<>>, <<>>, <<>>, <<>>, body.fecha, body.hora,
              body.servicio, <<>>>>

obtenerCitas_belowSecond(sheet) == IF Len(sheet) > 2 THEN Tail(Tail(sheet)) ELSE <<>>

\* obtenerCitas(): the rows of the sheet below the first
obtenerCitas(sheet) == IF Len(sheet) > 1 THEN Tail(sheet) ELSE <<>>

citasLeidas_stale(sheet, leyo) == obtenerCitas(sheet)

\* what obtenerCitas() hands to the handler of part_001 and part_004: the rows
\* of the sheet, or, when the read throws, the empty list of its catch
citasLeidas(sheet, leyo) == IF leyo THEN obtenerCitas(sheet) ELSE <<>>

agregarFila_written(sheet, valores, exito) == Append(sheet, valores)

\* agregarFila(valores): the row appended below the sheet and true, or the
\* sheet as it was and false (part_003: an error thrown)
agregarFila(sheet, valores, exito) == IF exito THEN Append(sheet, valores) ELSE sheet

overlaps_closed(inicioA, finA, inicioB, finB) ==
    /\ inicioA # InvalidDate /\ finB # InvalidDate /\ inicioA <= finB
    /\ inicioB # InvalidDate /\ finA # InvalidDate /\ inicioB <= finA

\* fechaHoraSolicitada < finExistente && fechaHoraFinSolicitada > inicioExistente
overlaps(inicioA, finA, inicioB, finB) ==
    dateLess(inicioA, finB) /\ dateLess(inicioB, finA)

\* whether the row cita is read as a booking, and the interval it is read as
citaCuenta(rev, cita) ==
    LET c == Columns(rev)
    IN  /\ Cell(cita, c.fecha) # <<>>
        /\ Cell(cita, c.hora) # <<>>
        /\ rev # "part_003" => Cell(cita, c.servicio) # <<>>

inicioExistente(rev, cita) ==
    newDate(Cell(cita, Columns(rev).fecha), Cell(cita, Columns(rev).hora))

finExistente(rev, cita) ==
    plusMinutes(inicioExistente(rev, cita), duracion(Cell(cita, Columns(rev).servicio)))

\* the conflict loop over the rows read
hayConflicto(rev, body, citasExistentes) ==
    LET fechaHoraSolicitada == newDate(body.fecha, body.hora)
        fechaHoraFinSolicitada == plusMinutes(fechaHoraSolicitada, duracion(body.servicio))
    IN  \E k \in 1..Len(citasExistentes) :
            /\ citaCuenta(rev, citasExistentes[k])
            /\ overlaps(fechaHoraSolicitada, fechaHoraFinSolicitada,
                        inicioExistente(rev, citasExistentes[k]),
                        finExistente(rev, citasExistentes[k]))

OpensAt == 9
ClosesAt == 18
SlotStep == 30

\* whether the slot from tiempoPrueba is free of the bookings of the day
slotDisponible(rev, body, citasExistentes, tiempoPrueba, finTiempoPrueba) ==
    \A k \in 1..Len(citasExistentes) :
        LET cita == citasExistentes[k]
        IN  ( /\ citaCuenta(rev, cita)
              /\ Cell(cita, Columns(rev).fecha) = body.fecha ) =>
                ~overlaps(tiempoPrueba, finTiempoPrueba,
                          inicioExistente(rev, cita), finExistente(rev, cita))

\* the suggestion loop from tiempoPrueba on
RECURSIVE horariosDesde(_, _, _, _, _)
horariosDesde(rev, body, citasExistentes, tiempoPrueba, finJornada) ==
    LET finTiempoPrueba == plusMinutes(tiempoPrueba, duracion(body.servicio))
    IN  IF ~dateLess(tiempoPrueba, finJornada) THEN <<>>
        ELSE IF dateLess(finJornada, finTiempoPrueba) THEN <<>>
        ELSE (IF slotDisponible(rev, body, citasExistentes, tiempoPrueba, finTiempoPrueba)
              THEN <<toTimeString5(tiempoPrueba)>> ELSE <<>>)
             \o (CHOOSE resto \in {horariosDesde(rev, body, citasExistentes, siguiente,
                                                 finJornada) :
                                    siguiente \in {plusMinutes(tiempoPrueba, SlotStep)}} : TRUE)

horariosDisponibles_five(rev, body, citasExistentes) ==
    SubSeq(horariosDesde(rev, body, citasExistentes,
                         newDate(body.fecha, TwoDigits(OpensAt) \o <<":", "0", "0">>),
                         newDate(body.fecha, TwoDigits(ClosesAt) \o <<":", "0", "0">>)), 1,
           Min(5, Len(horariosDesde(rev, body, citasExistentes,
                         newDate(body.fecha, TwoDigits(OpensAt) \o <<":", "0", "0">>),
                         newDate(body.fecha, TwoDigits(ClosesAt) \o <<":", "0", "0">>)))))

\* horariosDisponibles: the free slots from 09:00 to 18:00; part_003 suggests none
horariosDisponibles(rev, body, citasExistentes) ==
    IF rev = "part_003" THEN <<>>
    ELSE horariosDesde(rev, body, citasExistentes,
                       newDate(body.fecha, TwoDigits(OpensAt) \o <<":", "0", "0">>),
                       newDate(body.fecha, TwoDigits(ClosesAt) \o <<":", "0", "0">>))

\* the fields the handler requires
faltanCampos(rev, body) ==
    \/ body.nombre = <<>> \/ body.fecha = <<>> \/ body.hora = <<>> \/ body.servicio = <<>>
    \/ rev = "part_003" /\ body.email = <<>>

\* part_003 rejects a date and time that make no Date
formatoInvalido(rev, body) ==
    rev = "part_003" /\ newDate(body.fecha, body.hora) = InvalidDate

SetCall(i, call) == calls' = [calls EXCEPT ![i] = call]

\* the handler up to the rows coming back from obtenerCitas(): a body that
\* fails validation is answered 400; the read gives the rows of the sheet,
\* or fails, and then gives no rows (part_001, part_004) or ends the
\* request with 500 (part_003)
AgendarLee(i) ==
    /\ calls[i].rev # "part_002"
    /\ calls[i].pc = "recibida"
    /\ LET call == calls[i]
       IN  IF faltanCampos(call.rev, call.body) \/ formatoInvalido(call.rev, call.body)
           THEN SetCall(i, [call EXCEPT !.pc = "respondida", !.res = [status |-> 400]])
           ELSE \E leyo \in BOOLEAN :
                    IF leyo
                    THEN SetCall(i, [call EXCEPT !.pc = "leidas", !.leyo = TRUE,
                                                 !.citasExistentes = citasLeidas(hoja, TRUE)])
                    ELSE IF call.rev = "part_003"
                         THEN SetCall(i, [call EXCEPT !.pc = "respondida", !.leyo = FALSE,
                                                      !.res = [status |-> 500]])
                         ELSE SetCall(i, [call EXCEPT !.pc = "leidas", !.leyo = FALSE,
                                                      !.citasExistentes = citasLeidas(hoja, FALSE)])
    /\ UNCHANGED <<priceListData, loaded, req, queued, res, matchingTires, hoja, CONFIG>>

\* the handler from the conflict loop on: 409 with the suggestions on a
\* conflict; otherwise agregarFila, which appends the row (201) or fails (500)
AgendarResuelve(i) ==
    /\ calls[i].rev # "part_002"
    /\ calls[i].pc = "leidas"
    /\ LET call == calls[i]
       IN  IF hayConflicto(call.rev, call.body, call.citasExistentes)
           THEN /\ SetCall(i, [call EXCEPT
                        !.pc = "respondida",
                        !.res = [status |-> 409,
                                 horariosSugeridos |->
                                    horariosDisponibles(call.rev, call.body,
                                                        call.citasExistentes)]])
                /\ hoja' = hoja
           ELSE \E exito \in BOOLEAN :
                    /\ hoja' = agregarFila(hoja, nuevaFila(call.rev, call.body), exito)
                    /\ SetCall(i, [call EXCEPT
                            !.pc = "respondida",
                            !.res = [status |-> IF exito THEN 201 ELSE 500]])
    /\ UNCHANGED <<priceListData, loaded, req, queued, res, matchingTires, CONFIG>>

(***************************************************************************)
(* The handler of part_002: the conflict check with its normalisation of   *)
(* stored dates, around blocks that hold a comment and no code.            *)
(***************************************************************************)
Separadores == {"-", "/"}

\* fechaExistenteStr.split(/[-/]/)
RECURSIVE splitFecha(_)
splitFecha(x) ==
    IF \A k \in 1..Len(x) : x[k] \notin Separadores THEN <<x>>
    ELSE LET k == CHOOSE j \in 1..Len(x) :
                        /\ x[j] \in Separadores
                        /\ \A m \in 1..(j - 1) : x[m] \notin Separadores
         IN  <<SubSeq(x, 1, k - 1)>> \o splitFecha(SubSeq(x, k + 1, Len(x)))

\* the parts with the year first
isoDeLasPartes(parts) ==
    LET first == parseInt(Str(parts[1]))
    IN  IF first.t = "number" /\ first.n > 31
        THEN parts[1] \o <<"-">> \o parts[2] \o <<"-">> \o parts[3]
        ELSE parts[3] \o <<"-">> \o parts[2] \o <<"-">> \o parts[1]

\* isoDateStr: the date split once and put together again; no text for a
\* date that has not three parts, whose row the loop skips
isoDateStr(fechaExistenteStr) ==
    CHOOSE iso \in {IF Len(parts) # 3 THEN <<>> ELSE isoDeLasPartes(parts) :
                        parts \in {splitFecha(fechaExistenteStr)}} : TRUE

\* the conflict loop of part_002 over the rows read
hayConflictoNormalizado(body, citasExistentes) ==
    LET fechaHoraSolicitada == newDate(body.fecha, body.hora)
        fechaHoraFinSolicitada == plusMinutes(fechaHoraSolicitada, duracion(body.servicio))
    IN  \E k \in 1..Len(citasExistentes) :
            LET cita == citasExistentes[k]
            IN  /\ Cell(cita, 6) # <<>> /\ Cell(cita, 7) # <<>> /\ Cell(cita, 8) # <<>>
                /\ \E isoDate \in {isoDateStr(Cell(cita, 6))} :
                        /\ isoDate # <<>>
                        /\ \E inicio \in {newDate(isoDate, Cell(cita, 7))} :
                                /\ inicio # InvalidDate
                                /\ overlaps(fechaHoraSolicitada, fechaHoraFinSolicitada,
                                            inicio,
                                            plusMinutes(inicio, duracion(Cell(cita, 8))))

\* part_002 up to the rows coming back from obtenerCitas(): the block of the
\* required fields is empty, so a body without servicio throws at
\* servicio.toLowerCase() into the empty catch and the handler ends with no
\* answer; a date and time that make no Date are answered 400
EsqueletoLee(i) ==
    /\ calls[i].rev = "part_002"
    /\ calls[i].pc = "recibida"
    /\ LET call == calls[i]
       IN  IF call.body.servicio = <<>>
           THEN SetCall(i, [call EXCEPT !.pc = "terminada"])
           ELSE IF newDate(call.body.fecha, call.body.hora) = InvalidDate
           THEN SetCall(i, [call EXCEPT !.pc = "respondida", !.res = [status |-> 400]])
           ELSE \E leyo \in BOOLEAN :
                    SetCall(i, [call EXCEPT !.pc = "leidas", !.leyo = leyo,
                                            !.citasExistentes = citasLeidas(hoja, leyo)])
    /\ UNCHANGED <<priceListData, loaded, req, queued, res, matchingTires, hoja, CONFIG>>

\* part_002 from the conflict loop on: 409 with no suggestions on a conflict;
\* otherwise the handler ends, nothing appended and nothing answered
EsqueletoResuelve(i) ==
    /\ calls[i].rev = "part_002"
    /\ calls[i].pc = "leidas"
    /\ LET call == calls[i]
       IN  IF hayConflictoNormalizado(call.body, call.citasExistentes)
           THEN SetCall(i, [call EXCEPT
                        !.pc = "respondida",
                        !.res = [status |-> 409, horariosSugeridos |-> <<>>]])
           ELSE SetCall(i, [call EXCEPT !.pc = "terminada"])
    /\ UNCHANGED <<priceListData, loaded, req, queued, res, matchingTires, hoja, CONFIG>>

(***************************************************************************)
(* The bookings of the model.  An entry of the agenda declares a day, the  *)
(* minute of the day it starts at, the spelling of its service and how     *)
(* long the service takes; a body is the entry written into texts.         *)
(***************************************************************************)
TextDia(dia) == <<"2", "0", "2", "5", "-", "0", "3", "-">> \o TwoDigits(9 + dia)
TextHora(min) == TwoDigits(min \div 60) \o <<":">> \o TwoDigits(min % 60)

TextCitaTitle == <<"C", "i", "t", "a">>
TextLlamada == <<"l", "l", "a", "m", "a", "d", "a">>
TextLlamadaTitle == <<"L", "l", "a", "m", "a", "d", "a">>

Entry(dia, min, servicio, largo) ==
    [dia |-> dia, min |-> min, servicio |-> servicio, largo |-> largo]

Body(entry) ==
    [nombre |-> <<"A", "n", "a">>, email |-> <<"a", "@", "b">>,
     fecha |-> TextDia(entry.dia), hora |-> TextHora(entry.min),
     servicio |-> entry.servicio]

\* the bookings a sheet can hold
StoredEntries ==
    {Entry(1, 540, TextCitaTitle, 60), Entry(1, 570, TextLlamada, 30),
     Entry(1, 600, TextCita, 60), Entry(1, 1050, TextLlamada, 30),
     Entry(2, 540, TextCita, 60)}

\* the bookings asked for
RequestedEntries ==
    {Entry(1, 540, TextCita, 60), Entry(1, 540, TextLlamadaTitle, 30),
     Entry(1, 570, TextCitaTitle, 60), Entry(1, 570, TextLlamada, 30),
     Entry(1, 600, TextCita, 60), Entry(1, 1050, TextCita, 60)}

Agenda == StoredEntries \cup RequestedEntries

\* what the sheet can hold below the headers: bookings of two days, and a
\* row with no service
StoredBodies ==
    {Body(e) : e \in StoredEntries}
        \cup {[Body(Entry(1, 540, TextCita, 60)) EXCEPT !.servicio = <<>>]}

Encabezados(rev) == [k \in 1..Columns(rev).width |-> <<"#">>]

Sheets(rev) ==
    {<<Encabezados(rev)>> \o rows :
        rows \in SeqsUpTo({nuevaFila(rev, b) : b \in StoredBodies}, MaxCitas)}

\* the bodies requested: bookings of the first day, and bodies with a field missing
RequestBodies ==
    {Body(e) : e \in RequestedEntries}
        \cup {[Body(Entry(1, 540, TextCita, 60)) EXCEPT !.nombre = <<>>],
              [Body(Entry(1, 540, TextCita, 60)) EXCEPT !.servicio = <<>>],
              [Body(Entry(1, 570, TextCitaTitle, 60)) EXCEPT !.email = <<>>]}

Revisions == {"part_001", "part_003", "part_004"}

NewCall(rev, body) ==
    [rev |-> rev, body |-> body, pc |-> "recibida", leyo |-> FALSE,
     citasExistentes |-> <<>>, res |-> NoResponse]

InitCitas ==
    /\ priceListData = <<>>
    /\ loaded = <<NoFile>>
    /\ req = NoRequest
    /\ queued = NoRequest
    /\ res = NoResponse
    /\ matchingTires = <<>>
    /\ CONFIG = DefaultConfig
    /\ \E rev \in Revisions :
            /\ hoja \in Sheets(rev)
            /\ \E body \in RequestBodies : calls = <<NewCall(rev, body)>>

NextCitas == \E i \in DOMAIN calls : AgendarLee(i) \/ AgendarResuelve(i)

SpecCitas == InitCitas /\ [][NextCitas]_vars

(***************************************************************************)
(* Two requests to one sheet.  The handler awaits the read and the append, *)
(* so the steps of two requests in flight interleave freely (SpecDosCitas);*)
(* handled one at a time, the second is taken up when the first has its    *)
(* answer (SpecEnTurno).                                                   *)
(***************************************************************************)
\* rows j and k of the sheet are bookings read as overlapping
filasChocan(rev, sheet, j, k) ==
    /\ citaCuenta(rev, sheet[j]) /\ citaCuenta(rev, sheet[k])
    /\ overlaps(inicioExistente(rev, sheet[j]), finExistente(rev, sheet[j]),
                inicioExistente(rev, sheet[k]), finExistente(rev, sheet[k]))

\* the sheets of at most MaxCitas rows, the headers counted, in which no two
\* bookings overlap
SheetsSinChoque(rev) ==
    {sheet \in Sheets(rev) :
        /\ Len(sheet) <= MaxCitas
        /\ \A j, k \in 2..Len(sheet) : j < k => ~filasChocan(rev, sheet, j, k)}

\* the bodies of two requests for the same morning
BodiesEnVuelo == {Body(e) : e \in {f \in RequestedEntries : f.min < 600}}

InitDosCitas ==
    /\ priceListData = <<>>
    /\ loaded = <<NoFile>>
    /\ req = NoRequest
    /\ queued = NoRequest
    /\ res = NoResponse
    /\ matchingTires = <<>>
    /\ CONFIG = DefaultConfig
    /\ \E rev \in Revisions :
            /\ hoja \in SheetsSinChoque(rev)
            /\ \E a, b \in BodiesEnVuelo :
                    calls = <<NewCall(rev, a), NewCall(rev, b)>>

SpecDosCitas == InitDosCitas /\ [][NextCitas]_vars

\* every request before the i-th has its answer
EnTurno(i) == \A j \in 1..(i - 1) : calls[j].pc = "respondida"

LeeEnTurno(i) == EnTurno(i) /\ AgendarLee(i)

ResuelveEnTurno(i) == EnTurno(i) /\ AgendarResuelve(i)

NextEnTurno == \E i \in DOMAIN calls : LeeEnTurno(i) \/ ResuelveEnTurno(i)

SpecEnTurno == InitDosCitas /\ [][NextEnTurno]_vars

(***************************************************************************)
(* One request to any of the four revisions, each step of its handler      *)
(* taken once it can be: the event loop runs every continuation whose      *)
(* awaited call has settled.                                               *)
(***************************************************************************)
TextDiaLatino == <<"1", "0", "/", "0", "3", "/", "2", "0", "2", "5">>

\* the sheets of at most MaxCitas rows, the headers counted
SheetsCortas(rev) == {sheet \in Sheets(rev) : Len(sheet) <= MaxCitas}

\* the sheets of part_002: those, and ones whose first booking has its date
\* written day first
SheetsEsqueleto ==
    SheetsCortas("part_002")
        \cup {[sheet EXCEPT ![2] = [@ EXCEPT ![7] = TextDiaLatino]] :
                sheet \in {h \in SheetsCortas("part_002") : Len(h) > 1}}

InitRevisiones ==
    /\ priceListData = <<>>
    /\ loaded = <<NoFile>>
    /\ req = NoRequest
    /\ queued = NoRequest
    /\ res = NoResponse
    /\ matchingTires = <<>>
    /\ CONFIG = DefaultConfig
    /\ \E rev \in Revisions \cup {"part_002"} :
            /\ hoja \in IF rev = "part_002" THEN SheetsEsqueleto ELSE SheetsCortas(rev)
            /\ \E body \in RequestBodies : calls = <<NewCall(rev, body)>>

NextRevisiones ==
    \E i \in DOMAIN calls :
        AgendarLee(i) \/ AgendarResuelve(i) \/ EsqueletoLee(i) \/ EsqueletoResuelve(i)

SpecRevisiones ==
    InitRevisiones /\ [][NextRevisiones]_vars /\ WF_vars(NextRevisiones)

(***************************************************************************)
(* The configurable booking service (src/unnamed/part_000): CONFIG holds   *)
(* the business hours, the buffer between appointments and the default     *)
(* duration, all read from the environment at start; the first row of the  *)
(* sheet names the columns, and a row is read as the appointment whose     *)
(* fields are the cells under those names.                                 *)
(***************************************************************************)
Headers == <<"codigo", "nombre", "telefono", "email", "servicio", "fecha", "hora",
             "vehiculo", "notas", "estado", "creada", "duracion">>

\* appointment[header] = row[index] || ''
Field(headers, row, name) ==
    IF \E k \in 1..Len(headers) : headers[k] = name /\ k <= Len(row)
    THEN row[CHOOSE k \in 1..Len(headers) : headers[k] = name /\ k <= Len(row)]
    ELSE <<>>

\* getExistingAppointments(): the rows below the first, by the names of the first
getExistingAppointments(sheet) ==
    IF Len(sheet) = 0 THEN <<>>
    ELSE [k \in 1..(Len(sheet) - 1) |->
            [fecha |-> Field(sheet[1], sheet[k + 1], "fecha"),
             hora |-> Field(sheet[1], sheet[k + 1], "hora"),
             servicio |-> Field(sheet[1], sheet[k + 1], "servicio"),
             estado |-> Field(sheet[1], sheet[k + 1], "estado")]]

TextInstalacion == <<"i", "n", "s", "t", "a", "l", "a", "c", "i", "o", "n">>
TextBalanceo == <<"b", "a", "l", "a", "n", "c", "e", "o">>
TextBalanceoTitle == <<"B", "a", "l", "a", "n", "c", "e", "o">>
TextAlineacion == <<"a", "l", "i", "n", "e", "a", "c", "i", "o", "n">>
TextCancelada == <<"c", "a", "n", "c", "e", "l", "a", "d", "a">>
TextConfirmada == <<"c", "o", "n", "f", "i", "r", "m", "a", "d", "a">>

\* CONFIG.SERVICES with no environment set, but for the oil change
SERVICES ==
    <<[id |-> TextInstalacion, name |-> <<"I", "n", "s", "t", "a", "l", "a", "c", "i", "o", "n",
                                          " ", "d", "e", " ", "l", "l", "a", "n", "t", "a", "s">>,
       duration |-> 60],
      [id |-> TextBalanceo, name |-> TextBalanceoTitle, duration |-> 30],
      [id |-> TextAlineacion, name |-> <<"A", "l", "i", "n", "e", "a", "c", "i", "o", "n">>,
       duration |-> 45]>>

\* getServiceDuration(serviceName); the empty text is a service not given
getServiceDuration(config, serviceName) ==
    LET found == {k \in 1..Len(SERVICES) :
                    \/ serviceName # <<>> /\ toLowerCase(SERVICES[k].name) = toLowerCase(serviceName)
                    \/ SERVICES[k].id = serviceName}
    IN  IF found = {} THEN config.duration
        ELSE SERVICES[CHOOSE k \in found : \A j \in found : k <= j].duration

\* DateTime.fromFormat(`${date} ${time}`, 'yyyy-MM-dd HH:mm'): minutes, or invalid
fromFormat(date, time) ==
    IF ValidFecha(date) /\ ValidHora(time)
    THEN DayNumber(date) * MinutesPerDay + MinuteOfDay(time)
    ELSE InvalidDate

\* dateTime.hour
hourOf(dateTime) == (dateTime % MinutesPerDay) \div 60

\* dateTime.weekday: 1 is Monday, 7 is Sunday; 2025-03-10 is a Monday
weekdayOf(dateTime) ==
    (((dateTime \div MinutesPerDay)
        - DayNumber(<<"2", "0", "2", "5", "-", "0", "3", "-", "1", "0">>)) % 7) + 1

WorkDays == {1, 2, 3, 4, 5}

takesSlot_cancelledToo(appointment) ==
    /\ appointment.fecha # <<>>
    /\ fromFormat(appointment.fecha, appointment.hora) # InvalidDate

\* an appointment that takes its slot: it has a date, is not cancelled, and its
\* date and time make a DateTime
takesSlot(appointment) ==
    /\ appointment.fecha # <<>>
    /\ appointment.estado # TextCancelada
    /\ fromFormat(appointment.fecha, appointment.hora) # InvalidDate

\* slotStart < existingEnd && slotEnd.plus({ minutes: buffer }) > existingDateTime
hasOverlap(config, slotStart, slotEnd, appointment) ==
    LET existingDateTime == fromFormat(appointment.fecha, appointment.hora)
        existingEnd == existingDateTime
                        + getServiceDuration(config, appointment.servicio) + config.buffer
    IN  slotStart < existingEnd /\ slotEnd + config.buffer > existingDateTime

\* if (slotEnd.hour >= CONFIG.BUSINESS_HOURS.end) continue
slotInHours(config, slotStart, slotEnd) == ~(hourOf(slotEnd) >= config.end)

\* the slots of getSuggestedSlots from the n-th on: two to the hour
RECURSIVE slotsFrom(_, _, _, _, _)
slotsFrom(config, date, duration, existingAppointments, n) ==
    LET hour == config.start + n \div 2
        slotStart == DayNumber(date) * MinutesPerDay + hour * 60 + (n % 2) * SlotStep
        slotEnd == slotStart + duration
        hasConflict ==
            \E k \in 1..Len(existingAppointments) :
                /\ takesSlot(existingAppointments[k])
                /\ existingAppointments[k].fecha = date
                /\ hasOverlap(config, slotStart, slotEnd, existingAppointments[k])
    IN  IF ~(hour < config.end) THEN <<>>
        ELSE (IF slotInHours(config, slotStart, slotEnd) /\ ~hasConflict
              THEN <<toTimeString5(slotStart)>> ELSE <<>>)
             \o slotsFrom(config, date, duration, existingAppointments, n + 1)

\* suggestions.slice(0, 5)
SuggestionCap == 5

\* getSuggestedSlots(date, duration)
getSuggestedSlots(config, date, duration, existingAppointments) ==
    sliceTo(slotsFrom(config, date, duration, existingAppointments, 0), SuggestionCap)

\* validateTimeSlot(requestedDate, requestedTime, serviceDuration): the error
\* thrown, or "" when the slot is free
validateTimeSlot(config, requestedDate, requestedTime, serviceDuration, existingAppointments) ==
    LET requestedStart == fromFormat(requestedDate, requestedTime)
        requestedEnd == requestedStart + serviceDuration
    IN  IF requestedStart = InvalidDate THEN "formato"
        ELSE IF weekdayOf(requestedStart) \notin WorkDays THEN "dia no laboral"
        ELSE IF hourOf(requestedStart) < config.start \/ hourOf(requestedStart) >= config.end
             THEN "fuera de horario"
        ELSE IF \E k \in 1..Len(existingAppointments) :
                    /\ takesSlot(existingAppointments[k])
                    /\ existingAppointments[k].hora # <<>>
                    /\ hasOverlap(config, requestedStart, requestedEnd,
                                  existingAppointments[k])
             THEN "conflicto"
        ELSE ""

\* GET /appointments/availability?date&time&service: reading the sheet may
\* fail (500); a request with no date, and a time that validateTimeSlot
\* refuses, are answered 400; a free time is answered with the suggestions,
\* and a request with no time with the slots of the day
Availability(i) ==
    /\ calls[i].rev = "part_000"
    /\ calls[i].pc = "recibida"
    /\ LET call == calls[i]
           query == call.body
           duration == getServiceDuration(CONFIG, query.servicio)
       IN  IF query.fecha = <<>>
           THEN SetCall(i, [call EXCEPT !.pc = "respondida", !.res = [status |-> 400]])
           ELSE \E leyo \in BOOLEAN :
                    LET existingAppointments == getExistingAppointments(hoja)
                        answer(response) ==
                            SetCall(i, [call EXCEPT !.pc = "respondida", !.leyo = leyo,
                                                    !.res = response])
                        suggestedSlots ==
                            getSuggestedSlots(CONFIG, query.fecha, duration, existingAppointments)
                        refused == validateTimeSlot(CONFIG, query.fecha, query.hora, duration,
                                                    existingAppointments)
                    IN  IF ~leyo THEN answer([status |-> 500])
                        ELSE IF query.hora = <<>>
                             THEN answer([status |-> 200, availableSlots |-> suggestedSlots])
                        ELSE IF refused # ""
                             THEN answer([status |-> 400, available |-> FALSE, error |-> refused])
                        ELSE answer([status |-> 200, available |-> TRUE,
                                     suggestedSlots |-> suggestedSlots])
    /\ UNCHANGED <<priceListData, loaded, req, queued, res, matchingTires, hoja, CONFIG>>

\* the row createAppointment writes for an appointment, and a row cancelled later
AppointmentRow(entry, estado) ==
    <<<<"C", "1">>, <<"A", "n", "a">>, <<"5", "5">>, <<>>, entry.servicio, TextDia(entry.dia),
      TextHora(entry.min), <<>>, <<>>, estado, <<"t">>, NatToText(entry.largo)>>

\* the appointments a sheet can hold: late and early ones, one cancelled
StoredAppointments ==
    {AppointmentRow(Entry(1, 540, TextInstalacion, 60), TextConfirmada),
     AppointmentRow(Entry(1, 570, TextBalanceoTitle, 30), TextCancelada),
     AppointmentRow(Entry(1, 1020, TextBalanceo, 30), TextConfirmada),
     AppointmentRow(Entry(1, 1320, TextBalanceo, 30), TextConfirmada),
     AppointmentRow(Entry(2, 1350, TextInstalacion, 60), TextConfirmada),
     AppointmentRow(Entry(1, 600, <<>>, 60), TextConfirmada)}

AppointmentSheets == {<<Headers>> \o rows : rows \in SeqsUpTo(StoredAppointments, MaxCitas)}

\* the queries: a Monday, a Saturday or no date; no time or one before, in
\* and after the hours; a service by id, by name, unknown or not given
Queries ==
    {[nombre |-> <<>>, email |-> <<>>, fecha |-> f, hora |-> h, servicio |-> s] :
        f \in {<<>>, TextDia(1), TextDia(6)},
        h \in {<<>>, TextHora(480), TextHora(540), TextHora(1020), TextHora(1380)},
        s \in {<<>>, TextInstalacion, TextBalanceoTitle, TextAlineacion, TextCita}}

\* the hours of the default environment, and of a shop open from 22:00 to midnight
Configs == {DefaultConfig, [DefaultConfig EXCEPT !.start = 22, !.end = 24]}

InitAppointments ==
    /\ priceListData = <<>>
    /\ loaded = <<NoFile>>
    /\ req = NoRequest
    /\ queued = NoRequest
    /\ res = NoResponse
    /\ matchingTires = <<>>
    /\ CONFIG \in Configs
    /\ hoja \in AppointmentSheets
    /\ \E query \in Queries : calls = <<NewCall("part_000", query)>>

NextAppointments == \E i \in DOMAIN calls : Availability(i)

SpecAppointments == InitAppointments /\ [][NextAppointments]_vars

(***************************************************************************)
(* POST /appointments of the configurable service: createAppointment       *)
(* validates the data, validates the slot against the sheet it reads and   *)
(* appends the row; requests are handled one after the other.              *)
(***************************************************************************)
PhoneChars == {"0", "1", "2", "3", "4", "5", "6", "7", "8", "9", " ", "-", "+", "(", ")"}

\* /^[\d\s\-\+\(\)]{8,15}$/.test(phone)
isValidPhone(phone) ==
    /\ Len(phone) >= 8 /\ Len(phone) <= 15
    /\ \A k \in 1..Len(phone) : phone[k] \in PhoneChars

\* /^[^\s@]+@[^\s@]+\.[^\s@]+$/.test(email)
isValidEmail(email) ==
    /\ \A k \in 1..Len(email) : ~IsSpace(email[k])
    /\ \E at \in 2..Len(email) :
            /\ email[at] = "@"
            /\ \A k \in 1..Len(email) : email[k] = "@" => k = at
            /\ \E dot \in (at + 2)..(Len(email) - 1) : email[dot] = "."

\* /^([0-1]?[0-9]|2[0-3]):[0-5][0-9]$/.test(hora)
isHoraForm(hora) ==
    \/ ValidHora(hora)
    \/ /\ Len(hora) = 4 /\ hora[2] = ":"
       /\ IsDigit(hora[1]) /\ IsDigit(hora[3]) /\ IsDigit(hora[4])
       /\ DecimalValue(SubSeq(hora, 3, 4)) <= 59

\* DateTime.now().startOf('day') in the runs of the model: Monday 2025-03-10
TextHoy == <<"2", "0", "2", "5", "-", "0", "3", "-", "1", "0">>

\* validateAppointmentData(data).isValid
validateAppointmentData(data) ==
    /\ Trim(data.nombre) # <<>>
    /\ Trim(data.telefono) # <<>> /\ isValidPhone(data.telefono)
    /\ data.email # <<>> => isValidEmail(data.email)
    /\ Trim(data.servicio) # <<>>
    /\ data.fecha # <<>> =>
            /\ ValidFecha(data.fecha)
            /\ ~(DayNumber(data.fecha) < DayNumber(TextHoy))
    /\ data.hora # <<>> => isHoraForm(data.hora)

\* rowData of createAppointment
rowData(data, serviceDuration) ==
    <<<<"C", "1">>, data.nombre, data.telefono, data.email, data.servicio, data.fecha,
      data.hora, <<>>, <<>>, TextConfirmada, <<"t">>, NatToText(serviceDuration)>>

\* createAppointment up to the rows coming back to validateTimeSlot: data
\* that fail validation end it with 400, a read that fails with 500
CrearLee(i) ==
    /\ calls[i].rev = "part_000"
    /\ calls[i].pc = "recibida"
    /\ LET call == calls[i]
       IN  IF ~validateAppointmentData(call.body)
           THEN SetCall(i, [call EXCEPT !.pc = "respondida",
                                        !.res = [status |-> 400, error |-> "datos"]])
           ELSE \E leyo \in BOOLEAN :
                    IF leyo
                    THEN SetCall(i, [call EXCEPT
                                !.pc = "leidas", !.leyo = TRUE,
                                !.citasExistentes = getExistingAppointments(hoja)])
                    ELSE SetCall(i, [call EXCEPT !.pc = "respondida",
                                                 !.res = [status |-> 500, error |-> "sheets"]])
    /\ UNCHANGED <<priceListData, loaded, req, queued, res, matchingTires, hoja, CONFIG>>

\* createAppointment from validateTimeSlot's checks on: a slot refused is
\* answered 400; otherwise the row is appended and answered 201, or the
\* second read or the append fails and the answer is 500
CrearGuarda(i) ==
    /\ calls[i].rev = "part_000"
    /\ calls[i].pc = "leidas"
    /\ LET call == calls[i]
           serviceDuration == getServiceDuration(CONFIG, call.body.servicio)
           refused == validateTimeSlot(CONFIG, call.body.fecha, call.body.hora,
                                       serviceDuration, call.citasExistentes)
       IN  IF refused # ""
           THEN /\ SetCall(i, [call EXCEPT !.pc = "respondida",
                                           !.res = [status |-> 400, error |-> refused]])
                /\ hoja' = hoja
           ELSE \E exito \in BOOLEAN :
                    /\ hoja' = IF exito THEN Append(hoja, rowData(call.body, serviceDuration))
                               ELSE hoja
                    /\ SetCall(i, [call EXCEPT
                            !.pc = "respondida",
                            !.res = [status |-> IF exito THEN 201 ELSE 500,
                                     error |-> IF exito THEN "" ELSE "sheets"]])
    /\ UNCHANGED <<priceListData, loaded, req, queued, res, matchingTires, CONFIG>>

TextTelefono == <<"5", "5", "1", "2", "3", "4", "5", "6", "7", "8">>

Datos(entry) ==
    [nombre |-> <<"A", "n", "a">>, telefono |-> TextTelefono, email |-> <<>>,
     fecha |-> TextDia(entry.dia), hora |-> TextHora(entry.min), servicio |-> entry.servicio]

\* the appointments asked for: Monday mornings a quarter of an hour apart or
\* less, and data that fail validation
AppointmentData ==
    {Datos(Entry(1, 540, TextInstalacion, 60)), Datos(Entry(1, 570, TextBalanceo, 30)),
     Datos(Entry(1, 600, TextBalanceoTitle, 30)), Datos(Entry(1, 615, TextBalanceo, 30)),
     [Datos(Entry(1, 540, TextBalanceo, 30)) EXCEPT !.telefono = <<"5", "5">>],
     [Datos(Entry(1, 540, TextBalanceo, 30)) EXCEPT !.email = <<"a", "@", "b">>],
     [Datos(Entry(1, 540, TextBalanceo, 30)) EXCEPT !.hora = <<"9", ":", "0", "0">>],
     Datos(Entry(0, 540, TextBalanceo, 30))}

\* the sheets of at most MaxCitas rows, the headers counted
AppointmentSheetsCortas == {sheet \in AppointmentSheets : Len(sheet) <= MaxCitas}

InitCrear ==
    /\ priceListData = <<>>
    /\ loaded = <<NoFile>>
    /\ req = NoRequest
    /\ queued = NoRequest
    /\ res = NoResponse
    /\ matchingTires = <<>>
    /\ CONFIG \in {DefaultConfig, [DefaultConfig EXCEPT !.buffer = 0]}
    /\ hoja \in AppointmentSheetsCortas
    /\ \E a, b \in AppointmentData :
            calls = <<NewCall("part_000", a), NewCall("part_000", b)>>

CrearLeeEnTurno(i) == EnTurno(i) /\ CrearLee(i)

CrearGuardaEnTurno(i) == EnTurno(i) /\ CrearGuarda(i)

NextCrear == \E i \in DOMAIN calls : CrearLeeEnTurno(i) \/ CrearGuardaEnTurno(i)

SpecCrear == InitCrear /\ [][NextCrear]_vars

(***************************************************************************)
(* The sizes as the specification writes them.  A size is a sequence of    *)
(* items: "d" a digit, "s+" one or more spaces, "s" one space, "e" a space *)
(* or the end of the text, "-R" a dash or an R, any other item itself.     *)
(***************************************************************************)
RECURSIVE PrefixMatch(_, _)
PrefixMatch(x, pat) ==
    IF pat = <<>> THEN TRUE
    ELSE IF pat[1] = "e" THEN (x = <<>> \/ IsSpace(x[1])) /\ Len(pat) = 1
    ELSE IF x = <<>> THEN FALSE
    ELSE CASE pat[1] = "d" -> IsDigit(x[1]) /\ PrefixMatch(Tail(x), Tail(pat))
           [] pat[1] = "s" -> IsSpace(x[1]) /\ PrefixMatch(Tail(x), Tail(pat))
           [] pat[1] = "s+" ->
                /\ IsSpace(x[1])
                /\ (PrefixMatch(Tail(x), Tail(pat)) \/ PrefixMatch(Tail(x), pat))
           [] pat[1] = "-R" -> x[1] \in {"-", "R"} /\ PrefixMatch(Tail(x), Tail(pat))
           [] OTHER -> x[1] = pat[1] /\ PrefixMatch(Tail(x), Tail(pat))

\* 1: WWW AA DD    2: WWW AA RDD    3: WWW RDD or WWWW RDD    4: WWW/AA[-R]DD
Size1 == <<"d", "d", "d", "s+", "d", "d", "s+", "d", "d">>
Size2 == <<"d", "d", "d", "s+", "d", "d", "s+", "R", "d", "d">>
Size3 == <<"d", "d", "d", "s+", "R", "d", "d">>
Size3Wide == <<"d", "d", "d", "d", "s+", "R", "d", "d">>
Size4 == <<"d", "d", "d", "/", "d", "d", "-R", "d", "d">>

\* the maximal runs of digits of a text, left to right
RECURSIVE DigitRuns(_)
DigitRuns(x) ==
    IF x = <<>> THEN <<>>
    ELSE IF IsDigit(x[1])
         THEN LET r == DigitPrefix(x)
              IN  <<r>> \o DigitRuns(SubSeq(x, Len(r) + 1, Len(x)))
         ELSE DigitRuns(Tail(x))

\* the n-th integer written in a text
Written(x, n) == Num(DecimalValue(DigitRuns(x)[n]))

\* the positions at which an inline size (4) is written
InlineAt(x) == {i \in 1..Len(x) : PrefixMatch(SubSeq(x, i, Len(x)), Size4)}
InlineText(x, i) == SubSeq(x, i, i + 8)

\* a size 1 or 2 (car) or 3 (truck) at the start, closed by the item last
StartsCar(x, last) ==
    PrefixMatch(x, Size1 \o <<last>>) \/ PrefixMatch(x, Size2 \o <<last>>)
StartsTruck(x, last) ==
    PrefixMatch(x, Size3 \o <<last>>) \/ PrefixMatch(x, Size3Wide \o <<last>>)

Parsed == req.op = "tire-parse" /\ res.status = 200
ParsedText == Trim(req.product_name.s)

AllNull(specs) ==
    /\ specs.width = Null
    /\ specs.aspect_ratio = Null
    /\ specs.rim_diameter = Null
    /\ specs.type = Null

\* C1: a name that (trimmed) starts with a size 1, 2 or 3, or holds a size 4
\* anywhere, whether or not text follows the size, parses to a non-null width
\* and rim diameter equal to the integers written in the size; for every
\* other name width, aspect ratio, rim diameter and type are all null.
C1_EveryWrittenSizeParses ==
    Parsed =>
        LET x == ParsedText
            specs == res.parsed_specs
            pairs ==
                (IF StartsCar(x, "e") THEN {<<Written(x, 1), Written(x, 3)>>} ELSE {})
                \cup (IF StartsTruck(x, "e") THEN {<<Written(x, 1), Written(x, 2)>>} ELSE {})
                \cup {<<Written(InlineText(x, i), 1), Written(InlineText(x, i), 3)>> :
                        i \in InlineAt(x)}
        IN  IF pairs # {}
            THEN <<specs.width, specs.rim_diameter>> \in pairs
            ELSE AllNull(specs)

\* C2: the patterns are tried in the order 1, 2, 3, 4 and the first match
\* returns: a name that matches a start-anchored pattern (1-3) and also holds
\* an inline size (4) carries the start-anchored pattern's width, aspect
\* ratio, diameter and class.
C2_FirstPatternWins ==
    Parsed =>
        LET x == ParsedText
            specs == res.parsed_specs
        IN  /\ (StartsCar(x, "s") /\ InlineAt(x) # {}) =>
                    /\ specs.width = Written(x, 1)
                    /\ specs.aspect_ratio = Written(x, 2)
                    /\ specs.rim_diameter = Written(x, 3)
                    /\ specs.type = TypeCar
            /\ (StartsTruck(x, "s") /\ InlineAt(x) # {}) =>
                    /\ specs.width = Written(x, 1)
                    /\ specs.aspect_ratio = Null
                    /\ specs.rim_diameter = Written(x, 2)
                    /\ specs.type = TypeTruck

\* a truck size at the start, an inline size with another width after it, parsed
C2_Witness ==
    /\ Parsed
    /\ StartsTruck(ParsedText, "s")
    /\ \E i \in InlineAt(ParsedText) :
            Written(InlineText(ParsedText, i), 1) # Written(ParsedText, 1)
    /\ res.parsed_specs.type = TypeTruck

\* C3: the class follows the aspect ratio: type is car exactly when the
\* aspect ratio is non-null, truck exactly when the width is non-null and the
\* aspect ratio null, null exactly when the width is null; width and rim
\* diameter are null together.
C3_ClassFollowsAspectRatio ==
    Parsed =>
        LET specs == res.parsed_specs
        IN  /\ specs.type = TypeCar <=> specs.aspect_ratio # Null
            /\ specs.type = TypeTruck <=> (specs.width # Null /\ specs.aspect_ratio = Null)
            /\ specs.type = Null <=> specs.width = Null
            /\ specs.width = Null <=> specs.rim_diameter = Null
            /\ specs.type \in {TypeCar, TypeTruck, Null}

\* a truck result: a width and a rim diameter, no aspect ratio
C3_Witness ==
    /\ Parsed
    /\ res.parsed_specs.width # Null
    /\ res.parsed_specs.aspect_ratio = Null
    /\ res.parsed_specs.type = TypeTruck

(***************************************************************************)
(* Tire search: what a request says, and what was answered.                *)
(***************************************************************************)
Searched == req.op = "tire-search" /\ res.status = 200

\* the catalogue item a row was written from
ItemOf(row) == CHOOSE it \in CatalogItems : it.id = row.ID_Producto.n
HasSize(it) == it.fmt # 0
HasAspect(it) == it.fmt \in {1, 2, 4}
Loaded == {ItemOf(priceListData[i]) : i \in 1..Len(priceListData)}

Supplied(v) == v # Undefined /\ v # Null
QueryAspect == req.body.aspect_ratio
QueryDiameter == req.body.rim_diameter
CarSearch == Supplied(QueryAspect)
ExactAsked == req.body.exact_match = Bool(TRUE)

\* the value v writes the number k
Says(v, k) ==
    \/ v.t = "number" /\ v.n = k
    \/ v.t = "string" /\ v.s = NatToText(k)
\* the value v writes the number k, with or without an R before it
SaysWithR(v, k) ==
    \/ Says(v, k)
    \/ v.t = "string" /\ v.s \in {<<"R">> \o NatToText(k), <<"r">> \o NatToText(k)}
\* the number a numeric value writes
Said(v) == IF v.t = "number" THEN v.n ELSE DecimalValue(v.s)
Distance(a, b) == IF a >= b THEN a - b ELSE b - a

\* the products the filter kept, and the products listed in raw.results
MatchedIds == {matchingTires[i].ID_Producto.n : i \in 1..Len(matchingTires)}
ResultIds == {res.raw.results[i].id.n : i \in 1..Len(res.raw.results)}
NotCut == res.raw.totalFound <= res.raw.searchParams.limit

\* the request asks for the item's own size, exactly
OwnQuery(it) ==
    /\ req.body.width = Num(it.w)
    /\ req.body.rim_diameter = Num(it.d)
    /\ req.body.aspect_ratio = IF HasAspect(it) THEN Num(it.a) ELSE Undefined
    /\ ExactAsked

C5_RPrefixChangesNothing ==
    (Searched /\ Supplied(QueryDiameter) /\ AllDigits(ToText(QueryDiameter))) =>
        \A r \in {"R", "r"} :
            LET body == [req.body EXCEPT !.rim_diameter = Str(<<r>> \o ToText(@))]
            IN  tireSearch(priceListData, body).matchingTires = matchingTires

\* C6: in a car search without exact_match, a product whose width and
\* diameter match the query is a match when its aspect ratio is within 5 of
\* the query's (5 included, on either side) and is no match at distance 6 or more.
C6_AspectWithinFive ==
    (Searched /\ CarSearch /\ ~ExactAsked) =>
        \A it \in Loaded :
            ( /\ HasAspect(it)
              /\ Says(req.body.width, it.w)
              /\ (Supplied(QueryDiameter) => SaysWithR(QueryDiameter, it.d)) ) =>
                /\ Distance(it.a, Said(QueryAspect)) <= 5 =>
                        /\ it.id \in MatchedIds
                        /\ NotCut => it.id \in ResultIds
                /\ Distance(it.a, Said(QueryAspect)) >= 6 =>
                        /\ it.id \notin MatchedIds
                        /\ it.id \notin ResultIds

\* one product at distance exactly 5 matched, one at distance exactly 6 not
C6_Witness ==
    /\ Searched /\ CarSearch /\ ~ExactAsked
    /\ \E it \in Loaded :
            /\ HasAspect(it)
            /\ Distance(it.a, Said(QueryAspect)) = 5
            /\ it.id \in ResultIds
    /\ \E it \in Loaded :
            /\ HasAspect(it)
            /\ Says(req.body.width, it.w)
            /\ Supplied(QueryDiameter) => SaysWithR(QueryDiameter, it.d)
            /\ Distance(it.a, Said(QueryAspect)) = 6
            /\ it.id \notin MatchedIds

\* C7: in a car search with exact_match=true a product matches if and only
\* if its width, aspect ratio and rim diameter each equal the query's.
C7_ExactEqualsAll ==
    (Searched /\ CarSearch /\ ExactAsked) =>
        \A it \in Loaded :
            it.id \in MatchedIds <=>
                /\ HasAspect(it)
                /\ Says(req.body.width, it.w)
                /\ Says(QueryAspect, it.a)
                /\ Says(QueryDiameter, it.d)

\* an exact search that kept one product and dropped another of the same
\* width and diameter whose aspect ratio is 5 away
C7_Witness ==
    /\ Searched /\ CarSearch /\ ExactAsked
    /\ MatchedIds # {}
    /\ \E it \in Loaded :
            /\ HasAspect(it)
            /\ Says(req.body.width, it.w)
            /\ Says(QueryDiameter, it.d)
            /\ Distance(it.a, Said(QueryAspect)) = 5
            /\ it.id \notin MatchedIds

\* C8: in a search with no aspect ratio a parseable product matches if and
\* only if its width equals the query width and no diameter was supplied or
\* its rim diameter equals the query diameter with the R dropped; its own
\* aspect ratio plays no part.
C8_TruckWidthAndDiameter ==
    (Searched /\ ~CarSearch) =>
        \A it \in Loaded :
            it.id \in MatchedIds <=>
                /\ HasSize(it)
                /\ Says(req.body.width, it.w)
                /\ Supplied(QueryDiameter) => SaysWithR(QueryDiameter, it.d)

\* a search with no aspect ratio and an R-written diameter that kept a
\* product with an aspect ratio and one without
C8_Witness ==
    /\ Searched /\ ~CarSearch
    /\ Supplied(QueryDiameter) /\ ~Says(QueryDiameter, Said(Str(DropRs(ToText(QueryDiameter)))))
    /\ \E it \in Loaded : HasAspect(it) /\ it.id \in MatchedIds
    /\ \E it \in Loaded : HasSize(it) /\ ~HasAspect(it) /\ it.id \in MatchedIds

\* C9: raw.results is in non-decreasing price order and is cut after the
\* sort: no matching product left out costs less than one that is listed.
C9_SortedThenCut ==
    Searched =>
        LET results == res.raw.results
        IN  /\ \A i, j \in 1..Len(results) :
                    i <= j => results[i].price.n <= results[j].price.n
            /\ \A k \in 1..Len(matchingTires) :
                    matchingTires[k].ID_Producto.n \notin ResultIds =>
                        \A i \in 1..Len(results) :
                            results[i].price.n <= matchingTires[k].PRECIO_FINAL.n
            /\ ResultIds \subseteq MatchedIds
            /\ Len(results) = Min(res.raw.totalFound, res.raw.searchParams.limit)

\* two matches loaded dearer first, the cheaper one listed and the dearer cut
C9_Witness ==
    /\ Searched
    /\ Len(priceListData) = 2
    /\ priceListData[1].PRECIO_FINAL.n > priceListData[2].PRECIO_FINAL.n
    /\ MatchedIds = {priceListData[1].ID_Producto.n, priceListData[2].ID_Producto.n}
    /\ ResultIds = {priceListData[2].ID_Producto.n}

\* a limit that is a number, or a text that writes one
IsNumeric(v) ==
    \/ v.t = "number"
    \/ v.t = "string" /\ v.s # <<>> /\ AllDigits(v.s)

\* C10: the effective limit is 10 when limit is absent or not a number, and
\* otherwise the supplied integer clamped into [1,100]: below 1 gives 1, above
\* 100 gives 100; raw.results has min(totalFound, effective limit) entries
\* and searchParams.limit reports the effective limit.
C10_LimitClamped ==
    Searched =>
        LET limit == req.body.limit
            effective == IF IsNumeric(limit) THEN Min(Max(Said(limit), 1), 100) ELSE 10
        IN  /\ res.raw.searchParams.limit = effective
            /\ Len(res.raw.results) = Min(res.raw.totalFound, effective)

(***************************************************************************)
(* The tire search as the README documents it.                             *)
(***************************************************************************)
DocumentedAspect == req.body.aspectRatio
DocumentedDiameter == req.body.diameter
DocumentedExact == req.body.exactMatch = Bool(TRUE)

\* C18: a tire search written with the README's names (width, aspectRatio,
\* diameter, exactMatch) matches, with exactMatch true, only products whose
\* aspect ratio and diameter equal the query's, and with exactMatch false or
\* absent the products within 5 of the aspect ratio.
C18_DocumentedNamesBehave ==
    Searched =>
        \A it \in Loaded :
            LET sameSize ==
                    /\ HasAspect(it)
                    /\ Says(req.body.width, it.w)
                    /\ Says(DocumentedDiameter, it.d)
            IN  IF DocumentedExact
                THEN it.id \in MatchedIds => (sameSize /\ Says(DocumentedAspect, it.a))
                ELSE it.id \in MatchedIds <=>
                        (sameSize /\ Distance(it.a, Said(DocumentedAspect)) <= 5)

(***************************************************************************)
(* The product set over the life of the service.                           *)
(***************************************************************************)
LastLoad == loaded[Len(loaded)]
Reloaded == req.op = "reload" /\ res # NoResponse
RowsOf(rows) == {rows[i] : i \in 1..Len(rows)}

\* C15: after a successful reload the product set is exactly the rows read
\* from the spreadsheet by that reload, in their order, whatever was held
\* before, and the response's total is the number of those rows.
C15_ReloadReplacesAll ==
    (Reloaded /\ res.success) =>
        /\ LastLoad.ok
        /\ priceListData = LastLoad.rows
        /\ res.total = Len(LastLoad.rows)

\* a reload that replaced two rows by one other row
C15_Witness ==
    /\ Reloaded /\ res.success
    /\ Len(loaded) = 2
    /\ Len(loaded[1].rows) = 2
    /\ Len(priceListData) = 1
    /\ RowsOf(loaded[1].rows) \cap RowsOf(priceListData) = {}

\* the product sets the service has held: the empty array it starts with
\* when the first load fails, and the rows of every load that succeeded
Versions ==
    {loaded[i].rows : i \in {k \in 1..Len(loaded) : loaded[k].ok}}
        \cup (IF loaded[1].ok THEN {} ELSE {<<>>})

\* the response of a request that reads the product set, computed over data
Answer(r, data) ==
    CASE r.op = "health" -> health(data)
      [] r.op = "products" -> products(data)
      [] r.op = "product" -> productById(data, r.id)
      [] r.op = "search" -> search(data, r.body)
      [] OTHER -> tireSearch(data, r.body).res

ReadsProducts == req.op \in {"health", "products", "product", "search", "tire-search", "tire-search-es"}

\* C16: whatever the order in which a reload and a health, products,
\* product, search or tire-search request are handled, the response of the
\* request is the one computed over one whole product set the service has
\* held: the set before the reload or the set after it.
C16_OneVersionPerResponse ==
    (ReadsProducts /\ res # NoResponse) => \E data \in Versions : res = Answer(req, data)

\* a request answered after a reload, with another response than the set
\* held before the reload gives
C16_Witness ==
    /\ ReadsProducts /\ res # NoResponse
    /\ Len(loaded) = 2 /\ loaded[1].ok /\ loaded[2].ok
    /\ res = Answer(req, loaded[2].rows)
    /\ res # Answer(req, loaded[1].rows)

\* C17: every step of an endpoint other than reload leaves the product set
\* as it was: the same rows, in the same order, with the same fields.
C17_OnlyReloadChangesProducts ==
    [][(req.op # "reload" \/ res # NoResponse) => priceListData' = priceListData]_vars

\* a search answered over two rows held dearer first, which a sort of the
\* array itself would have reordered
C17_Witness ==
    /\ req.op = "search" /\ res.status = 200
    /\ res.raw.totalFound = 2
    /\ Len(priceListData) = 2
    /\ sortPrice(priceListData[1]) > sortPrice(priceListData[2])


(***************************************************************************)
(* The booking claims.  A row of the sheet, or a body, is read back as the *)
(* entry of the agenda it was written from; the intervals of the claims    *)
(* are those the entries declare.                                          *)
(***************************************************************************)
WrittenFrom(entry, fecha, hora, servicio) ==
    /\ fecha = TextDia(entry.dia)
    /\ hora = TextHora(entry.min)
    /\ servicio = entry.servicio

EntryOfBody(body) ==
    CHOOSE e \in Agenda : WrittenFrom(e, body.fecha, body.hora, body.servicio)

EntryOfRow(rev, cita) ==
    CHOOSE e \in Agenda :
        WrittenFrom(e, Cell(cita, Columns(rev).fecha), Cell(cita, Columns(rev).hora),
                    Cell(cita, Columns(rev).servicio))

\* the row has a date, a time and a service
Present(rev, cita) ==
    /\ Cell(cita, Columns(rev).fecha) # <<>>
    /\ Cell(cita, Columns(rev).hora) # <<>>
    /\ Cell(cita, Columns(rev).servicio) # <<>>

StartOf(entry) == entry.dia * MinutesPerDay + entry.min
EndOf(entry) == StartOf(entry) + entry.largo

Overlap(e, f) == StartOf(e) < EndOf(f) /\ EndOf(e) > StartOf(f)

\* the bookings stored in a sheet, below its headers
StoredIn(rev, sheet) ==
    {EntryOfRow(rev, sheet[k]) : k \in {j \in 2..Len(sheet) : Present(rev, sheet[j])}}

FullVariants == {"part_001", "part_004"}

\* the step in which call i gets its answer after its rows were read
Decides(i) == calls[i].pc = "leidas" /\ calls'[i].pc = "respondida"

\* C11: in part_001 and part_004 a request whose rows were read is answered
\* as a conflict (409) exactly when some stored row with date, time and
\* service overlaps it, reqStart < existingEnd and reqEnd > existingStart,
\* with 60 minutes for the service 'cita' in any case and 30 for any other
C11_ConflictRule ==
    [][\A i \in DOMAIN calls :
            (calls[i].rev \in FullVariants /\ calls[i].leyo /\ Decides(i)) =>
                ( calls'[i].res.status = 409
                    <=> \E e \in StoredIn(calls[i].rev, hoja) :
                            Overlap(EntryOfBody(calls[i].body), e) )]_vars

C11_Witness ==
    \E i \in DOMAIN calls :
        /\ calls[i].rev = "part_004" /\ calls[i].leyo
        /\ calls[i].res.status = 409
        /\ calls[i].body.servicio = TextLlamada
        /\ calls[i].body.hora = TextHora(570)
        /\ Len(hoja) = 2
        /\ Cell(hoja[2], 8) = TextCitaTitle


\* the row read as the body of a request
BodyOfRow(rev, cita) ==
    [nombre |-> <<"A", "n", "a">>, email |-> <<"a", "@", "b">>,
     fecha |-> Cell(cita, Columns(rev).fecha), hora |-> Cell(cita, Columns(rev).hora),
     servicio |-> Cell(cita, Columns(rev).servicio)]

BackToBack(e, f) == EndOf(e) = StartOf(f) \/ EndOf(f) = StartOf(e)

\* C12: the overlap test of the conflict check is symmetric, the request
\* conflicts with a stored booking exactly when that booking, requested,
\* conflicts with the request, stored; and two bookings of which one ends
\* at the instant the other starts do not conflict
C12_OverlapSymmetric ==
    \A i \in DOMAIN calls :
        \A k \in 1..Len(calls[i].citasExistentes) :
            LET rev == calls[i].rev
                body == calls[i].body
                cita == calls[i].citasExistentes[k]
            IN  (calls[i].pc # "recibida" /\ Present(rev, cita)) =>
                    /\ hayConflicto(rev, body, <<cita>>)
                            = hayConflicto(rev, BodyOfRow(rev, cita), <<nuevaFila(rev, body)>>)
                    /\ BackToBack(EntryOfBody(body), EntryOfRow(rev, cita))
                            => ~hayConflicto(rev, body, <<cita>>)

C12_Witness ==
    \E i \in DOMAIN calls :
        /\ calls[i].rev = "part_003"
        /\ calls[i].res.status = 201
        /\ calls[i].body.hora = TextHora(540)
        /\ calls[i].body.servicio = TextCita
        /\ Len(calls[i].citasExistentes) = 2
        /\ Cell(calls[i].citasExistentes[1], 8) = TextHora(600)
        /\ Cell(calls[i].citasExistentes[2], 8) = TextHora(1050)


\* the half hours of a day, and the one a suggested text names
GridMinutes == {m \in 0..(MinutesPerDay - 1) : m % SlotStep = 0}
MinuteNamed(text) == CHOOSE m \in GridMinutes : TextHora(m) = text

\* the response of call i is a conflict with its suggestions
Conflicted(i) ==
    /\ calls[i].rev \in FullVariants
    /\ calls[i].pc = "respondida"
    /\ calls[i].res.status = 409

Increasing(sugeridos) ==
    \A j \in 1..(Len(sugeridos) - 1) :
        MinuteNamed(sugeridos[j]) < MinuteNamed(sugeridos[j + 1])

\* C14: a 409 of part_001 and part_004 carries at most 5 suggested times,
\* in strictly increasing order of time
C14_AtMostFiveInOrder ==
    \A i \in DOMAIN calls :
        Conflicted(i) =>
            /\ Len(calls[i].res.horariosSugeridos) <= SuggestionCap
            /\ Increasing(calls[i].res.horariosSugeridos)

\* the order alone
SuggestionsInOrder ==
    \A i \in DOMAIN calls : Conflicted(i) => Increasing(calls[i].res.horariosSugeridos)


Slot(dia, min, largo) == [dia |-> dia, min |-> min, servicio |-> <<>>, largo |-> largo]

\* the times the rule of the suggestions allows for a request over a sheet:
\* on the half hours from 09:00, ending by 18:00, free of the day's bookings
FreeSlots(rev, body, sheet) ==
    LET asked == EntryOfBody(body)
    IN  {m \in GridMinutes :
            /\ m >= OpensAt * 60
            /\ m + asked.largo <= ClosesAt * 60
            /\ \A e \in StoredIn(rev, sheet) :
                    e.dia = asked.dia => ~Overlap(Slot(asked.dia, m, asked.largo), e)}

Named(sugeridos) == {sugeridos[j] : j \in 1..Len(sugeridos)}

\* C19: on a conflict in part_001 and part_004 the suggested times are
\* exactly the half hours from 09:00 that end by 18:00 and overlap no
\* stored booking of the day; the requested time is not among them when
\* a booking of the same date conflicts with it
C19_SuggestionsExact ==
    \A i \in DOMAIN calls :
        Conflicted(i) =>
            LET sugeridos == calls[i].res.horariosSugeridos
                asked == EntryOfBody(calls[i].body)
            IN  /\ Named(sugeridos)
                        = {TextHora(m) : m \in FreeSlots(calls[i].rev, calls[i].body, hoja)}
                /\ (\E e \in StoredIn(calls[i].rev, hoja) :
                        e.dia = asked.dia /\ Overlap(asked, e))
                        => calls[i].body.hora \notin Named(sugeridos)

C19_Witness ==
    \E i \in DOMAIN calls :
        /\ Conflicted(i)
        /\ calls[i].rev = "part_004"
        /\ Len(hoja) = 3
        /\ Len(calls[i].res.horariosSugeridos) \in 10..14
        /\ TextHora(1050) \in Named(calls[i].res.horariosSugeridos)


\* the step in which call i gets its answer
Answered(i) == calls[i].pc # "respondida" /\ calls'[i].pc = "respondida"

RequiredPresent(body) ==
    body.nombre # <<>> /\ body.fecha # <<>> /\ body.hora # <<>> /\ body.servicio # <<>>

\* a booking among the rows call i read overlaps the one it asks for
ConflictSeen(i) ==
    \E e \in StoredIn(calls[i].rev, <<Encabezados(calls[i].rev)>> \o calls[i].citasExistentes) :
        Overlap(EntryOfBody(calls[i].body), e)

\* sheet is old with one row more, the booking of body under its name
OneRowAdded(rev, old, sheet, body) ==
    /\ Len(sheet) = Len(old) + 1
    /\ SubSeq(sheet, 1, Len(old)) = old
    /\ Present(rev, sheet[Len(sheet)])
    /\ EntryOfRow(rev, sheet[Len(sheet)]) = EntryOfBody(body)
    /\ body.nombre \in {sheet[Len(sheet)][k] : k \in 1..2}

\* C20: in part_001 and part_004 the sheet changes only in answering a
\* request that has its required fields and met no conflict, and only with
\* 201; a 201 adds exactly the requested row; 400, 409 and 500 leave the
\* sheet as it was, so an append that failed is answered 500
C20_OutcomeMatchesEffect ==
    [][\A i \in DOMAIN calls :
            (calls[i].rev \in FullVariants /\ Answered(i)) =>
                LET status == calls'[i].res.status
                IN  /\ status \in {201, 400, 409, 500}
                    /\ hoja' # hoja =>
                            /\ RequiredPresent(calls[i].body)
                            /\ ~ConflictSeen(i)
                            /\ status = 201
                    /\ status = 201 => OneRowAdded(calls[i].rev, hoja, hoja', calls[i].body)
                    /\ status \in {400, 409, 500} => hoja' = hoja
                    /\ status = 400 <=> ~RequiredPresent(calls[i].body)
                    /\ (status = 500 /\ calls[i].pc = "leidas") => ~ConflictSeen(i)]_vars

C20_Witness ==
    \E i \in DOMAIN calls :
        /\ calls[i].rev = "part_001"
        /\ calls[i].res.status = 500
        /\ calls[i].leyo
        /\ calls[i].body.hora = TextHora(1050)
        /\ Len(hoja) = 3
        /\ Len(calls[i].citasExistentes) = 2


\* how long the service of a query takes, as CONFIG.SERVICES lists it
AskedDuration(servicio) ==
    CASE servicio = TextInstalacion -> 60
      [] servicio = TextBalanceoTitle -> 30
      [] servicio = TextBalanceo -> 30
      [] servicio = TextAlineacion -> 45
      [] OTHER -> CONFIG.duration

\* the slots a response of the configurable service suggests
SlotsSuggested(i) ==
    IF calls[i].body.hora = <<>> THEN calls[i].res.availableSlots
    ELSE calls[i].res.suggestedSlots

Offered(i) ==
    /\ calls[i].rev = "part_000"
    /\ calls[i].pc = "respondida"
    /\ calls[i].res.status = 200

\* the suggestions of part_001 and part_004 end by 18:00
FixedSuggestionsEndInHours ==
    \A i \in DOMAIN calls :
        Conflicted(i) =>
            \A t \in Named(calls[i].res.horariosSugeridos) :
                MinuteNamed(t) + EntryOfBody(calls[i].body).largo <= ClosesAt * 60

\* the suggestions of part_000 end by the hour CONFIG.BUSINESS_HOURS.end
ConfiguredSuggestionsEndInHours ==
    \A i \in DOMAIN calls :
        Offered(i) =>
            \A t \in Named(SlotsSuggested(i)) :
                MinuteNamed(t) + AskedDuration(calls[i].body.servicio) <= CONFIG.end * 60

\* C13: no suggested time t has t + the duration of the requested service
\* after the end of the business hours: 18:00 in part_001 and part_004,
\* CONFIG.BUSINESS_HOURS.end in part_000
C13_SuggestionsEndInHours ==
    FixedSuggestionsEndInHours /\ ConfiguredSuggestionsEndInHours

\* the same with the hours of the default environment only
DefaultHoursSuggestionsEndInHours ==
    CONFIG = DefaultConfig => ConfiguredSuggestionsEndInHours


(***************************************************************************)
(* A reload that fails.                                                    *)
(***************************************************************************)
\* the product set held after the first k loads: the rows of the last of
\* them that succeeded, the empty array when none did
RECURSIVE HeldAfter(_)
HeldAfter(k) ==
    IF k = 0 THEN <<>>
    ELSE IF loaded[k].ok THEN loaded[k].rows
    ELSE HeldAfter(k - 1)

\* C29: a reload that fails is answered success=false with the old number
\* of rows as total and leaves the product set exactly as it was before
\* the request; a request handled after it is answered as it would have
\* been before it
C29_FailedReloadChangesNothing ==
    /\ (Reloaded /\ ~res.success) =>
            /\ ~LastLoad.ok
            /\ priceListData = HeldAfter(Len(loaded) - 1)
            /\ res.total = Len(HeldAfter(Len(loaded) - 1))
    /\ (ReadsProducts /\ res # NoResponse /\ Len(loaded) > 1 /\ ~LastLoad.ok) =>
            /\ priceListData = HeldAfter(Len(loaded) - 1)
            /\ res = Answer(req, HeldAfter(Len(loaded) - 1))

\* a search answered with products after a reload failed over two rows held
C29_Witness ==
    /\ req.op = "search" /\ res.status = 200
    /\ res.raw.totalFound > 0
    /\ Len(loaded) = 2
    /\ loaded[1].ok /\ Len(loaded[1].rows) = 2
    /\ ~loaded[2].ok


(***************************************************************************)
(* The class of the products a tire search returns.                        *)
(***************************************************************************)
\* the class a response names as its searchType
ClassSearched == IF res.raw.searchType = "car" THEN TypeCar ELSE TypeTruck

ResultsOfClass(class) ==
    \A i \in 1..Len(res.raw.results) : res.raw.results[i].specs.type = class

\* C30: every product a tire search returns was parsed to the class the
\* response reports as searchType: car products only for a search with an
\* aspect ratio, truck products only for a search without one
C30_ResultsOfSearchedClass == Searched => ResultsOfClass(ClassSearched)

\* the half of it for searches with an aspect ratio
CarSearchReturnsCars == (Searched /\ CarSearch) => ResultsOfClass(TypeCar)


(***************************************************************************)
(* A read of the sheet that fails.                                         *)
(***************************************************************************)
\* the bookings of the sheet that overlap the one call i asks for
Clashing(i) ==
    {e \in StoredIn(calls[i].rev, hoja) : Overlap(EntryOfBody(calls[i].body), e)}

\* C23: in part_001 and part_004 a request whose read of the sheet failed
\* goes on with no rows at all; whatever the sheet holds it is never
\* answered 409: its row is appended and answered 201 when the append
\* succeeds, and the sheet stays as it was, answered 500, when it does not
C23_ReadFailureBooks ==
    [][\A i \in DOMAIN calls :
            (calls[i].rev \in FullVariants /\ ~calls[i].leyo /\ Decides(i)) =>
                /\ calls[i].citasExistentes = <<>>
                /\ calls'[i].res.status \in {201, 500}
                /\ calls'[i].res.status = 201 =>
                        OneRowAdded(calls[i].rev, hoja, hoja', calls[i].body)
                /\ calls'[i].res.status = 500 => hoja' = hoja]_vars

\* the append cannot be refused by the rows of the sheet: a request whose
\* read failed can always be answered 201
ReadFailureCanBook ==
    \A i \in DOMAIN calls :
        (calls[i].rev \in FullVariants /\ ~calls[i].leyo /\ calls[i].pc = "leidas") =>
            ENABLED (AgendarResuelve(i) /\ calls'[i].res.status = 201)

\* a request booked after a failed read over a booking of the same time
C23_Witness ==
    \E i \in DOMAIN calls :
        /\ calls[i].rev = "part_004"
        /\ ~calls[i].leyo
        /\ calls[i].res.status = 201
        /\ Len(hoja) = 4
        /\ \E e \in StoredIn(calls[i].rev, SubSeq(hoja, 1, 3)) :
                Overlap(EntryOfBody(calls[i].body), e)


(***************************************************************************)
(* Double bookings.                                                        *)
(***************************************************************************)
\* no two rows of the sheet are bookings of overlapping intervals
NoDoubleBooking(rev, sheet) ==
    \A j, k \in 2..Len(sheet) :
        (j < k /\ Present(rev, sheet[j]) /\ Present(rev, sheet[k])) =>
            ~Overlap(EntryOfRow(rev, sheet[j]), EntryOfRow(rev, sheet[k]))

\* no request went on after a read that failed
ReadsSucceeded ==
    \A i \in DOMAIN calls :
        (calls[i].pc = "leidas" \/ calls[i].res.status \in {201, 409, 500}) => calls[i].leyo

NoDoubleBookingInTurnSimple ==
    \A i \in DOMAIN calls :
        (calls[i].rev = "part_003" /\ ReadsSucceeded) =>
            NoDoubleBooking(calls[i].rev, hoja)

C25_AtMostOneBooked ==
    (/\ Len(calls) = 2
     /\ Overlap(EntryOfBody(calls[1].body), EntryOfBody(calls[2].body))
     /\ ReadsSucceeded)
        => ~(calls[1].res.status = 201 /\ calls[2].res.status = 201)

\* what C25 concludes of the sheet
NoDoubleBookingInFlight ==
    \A i \in DOMAIN calls : ReadsSucceeded => NoDoubleBooking(calls[i].rev, hoja)


(***************************************************************************)
(* Every request gets its answer.                                          *)
(***************************************************************************)
HasAnswer(i) == calls[i].res.status \in {201, 400, 409, 500}

\* C26: in every revision every request is eventually answered, with 201,
\* 400, 409 or 500, and the answer it has is never replaced by another
C26_AnsweredOnce ==
    /\ \A i \in {1} : <>(i \in DOMAIN calls /\ HasAnswer(i))
    /\ [][\A i \in DOMAIN calls :
                calls[i].res # NoResponse => calls'[i].res = calls[i].res]_vars

\* the same of part_001, part_003 and part_004 alone
FullHandlersAnswerOnce ==
    (\A i \in DOMAIN calls : calls[i].rev # "part_002") =>
        \A i \in {1} : <>(i \in DOMAIN calls /\ HasAnswer(i))

\* no answer is ever replaced
AnswerKept ==
    [][\A i \in DOMAIN calls :
            calls[i].res # NoResponse => calls'[i].res = calls[i].res]_vars

\* the handler of part_002 ends with an answer given
EndedAnswered ==
    \A i \in DOMAIN calls : calls[i].pc = "terminada" => HasAnswer(i)


(***************************************************************************)
(* The search of the price list: when it is refused, and what a limit      *)
(* leaves of it.                                                           *)
(***************************************************************************)
SearchAnswered == req.op = "search" /\ res # NoResponse

SearchFields == {"query", "productId", "productName", "priceMin", "priceMax"}

\* C21: a search is answered 400 exactly when its body supplies none of
\* query, productId, productName, priceMin and priceMax; a body with a price
\* bound of any numeric value, 0 included, is searched
C21_RefusedOnlyWithoutParameters ==
    SearchAnswered =>
        (res.status = 400 <=> \A f \in SearchFields : req.body[f] = Undefined)

\* what the handler does: it refuses the bodies whose five parameters are
\* all falsy, absent or 0 or the empty text
RefusedWhenAllFalsy ==
    SearchAnswered =>
        (res.status = 400 <=> \A f \in SearchFields : ~Truthy(req.body[f]))

\* the prices of the products listed
PricesListed(r) == [i \in 1..Len(r.raw.results) |-> r.raw.results[i].finalPrice]

\* the same search with no limit asked for
Unlimited == search(priceListData, [req.body EXCEPT !.limit = Undefined])

\* C22: a search with limit L lists the min(M, L) lowest-priced of the M
\* products that pass its filters, in ascending order of price: the first
\* min(M, L) of the list the same search gives without the limit
C22_LowestPricedWithinLimit ==
    (SearchAnswered /\ res.status = 200) =>
        LET L == res.raw.searchParams.limit
            M == Unlimited.raw.totalFound
        IN  /\ Len(res.raw.results) = Min(M, L)
            /\ PricesListed(res) = SubSeq(PricesListed(Unlimited), 1, Min(M, L))

\* the products listed are in ascending order of price, and as many as
\* min(M, L)
ListedAscending ==
    (SearchAnswered /\ res.status = 200) =>
        /\ Len(res.raw.results) = Min(Unlimited.raw.totalFound, res.raw.searchParams.limit)
        /\ \A i, j \in 1..Len(res.raw.results) :
                i < j => res.raw.results[i].finalPrice.n <= res.raw.results[j].finalPrice.n


(***************************************************************************)
(* The configurable service: the times it suggests against the times it    *)
(* accepts.                                                                *)
(***************************************************************************)
\* validateTimeSlot accepts time t for the query of call i, against the
\* sheet as it is
Validates(i, t) ==
    validateTimeSlot(CONFIG, calls[i].body.fecha, t,
                     getServiceDuration(CONFIG, calls[i].body.servicio),
                     getExistingAppointments(hoja)) = ""

\* C28: every time getSuggestedSlots gives for a date and a duration is a
\* time validateTimeSlot accepts for that date and duration against the
\* same sheet
C28_SuggestedTimesValidate ==
    \A i \in DOMAIN calls :
        Offered(i) => \A t \in Named(SlotsSuggested(i)) : Validates(i, t)

\* the same of the dates that are working days
WorkdaySuggestionsValidate ==
    \A i \in DOMAIN calls :
        (Offered(i) /\ weekdayOf(fromFormat(calls[i].body.fecha, TextHora(0))) \in WorkDays)
            => \A t \in Named(SlotsSuggested(i)) : Validates(i, t)


(***************************************************************************)
(* The configurable service: appointments kept apart by the buffer.        *)
(***************************************************************************)
\* the row is an appointment not cancelled
Vigente(row) ==
    /\ Field(Headers, row, "fecha") # <<>> /\ Field(Headers, row, "hora") # <<>>
    /\ Field(Headers, row, "estado") # TextCancelada

\* the minute a row's appointment starts at, and the minutes it is stored to take
InicioDe(row) ==
    DayNumber(Field(Headers, row, "fecha")) * MinutesPerDay
        + MinuteOfDay(Field(Headers, row, "hora"))

DuracionDe(row) == DecimalValue(Field(Headers, row, "duracion"))

\* one of the two ends, with the buffer after it, by the start of the other
Apart(a, b) ==
    \/ InicioDe(a) + DuracionDe(a) + CONFIG.buffer <= InicioDe(b)
    \/ InicioDe(b) + DuracionDe(b) + CONFIG.buffer <= InicioDe(a)

\* the rows createAppointment has added to the sheet
Created == {k \in 2..Len(hoja) : Field(Headers, hoja[k], "telefono") = TextTelefono}

====


